---- MODULE Spec2Model ----
(***************************************************************************)
(* Model of the document-processing engine of fileFire                     *)
(* (core/src/document/processor.rs and the four format processors).        *)
(*                                                                         *)
(* Byte strings (document content, file names) are sequences of integers   *)
(* 0..255.  ASCII literals of the source are written with Bytes("...").    *)
(***************************************************************************)
EXTENDS Integers, Sequences, FiniteSets, TLC

(***************************************************************************)
(* Byte-string helpers (Rust slice / str primitives used by the source).   *)
(***************************************************************************)

\* printable ASCII by code: AsciiLo is 32 (space) .. 95 (_), AsciiHi is
\* 97 (a) .. 126 (~); code 96 (backquote) is written as the number
AsciiLo == " !\"#$%&'()*+,-./0123456789:;<=>?@ABCDEFGHIJKLMNOPQRSTUVWXYZ[\\]^_"
AsciiHi == "abcdefghijklmnopqrstuvwxyz{|}~"

Ord(c) ==
    IF \E i \in 1..Len(AsciiLo) : SubSeq(AsciiLo, i, i) = c
    THEN 31 + (CHOOSE i \in 1..Len(AsciiLo) : SubSeq(AsciiLo, i, i) = c)
    ELSE 96 + (CHOOSE i \in 1..Len(AsciiHi) : SubSeq(AsciiHi, i, i) = c)

\* the bytes of an ASCII string literal
Bytes(s) == [i \in 1..Len(s) |-> Ord(SubSeq(s, i, i))]

LF == 10
CR == 13

Drop(s, n) == SubSeq(s, n + 1, Len(s))

\* content.len() >= p.len() && &content[0..p.len()] == p   /   str::starts_with
StartsWith(s, p) == Len(s) >= Len(p) /\ SubSeq(s, 1, Len(p)) = p

\* str::ends_with
EndsWith(s, p) == Len(s) >= Len(p) /\ SubSeq(s, Len(s) - Len(p) + 1, Len(s)) = p

\* p occurs in s at (1-based) position i
MatchAt(s, i, p) == i + Len(p) - 1 <= Len(s) /\ SubSeq(s, i, i + Len(p) - 1) = p

\* str::contains
Contains(s, p) == \E i \in 1..(Len(s) + 1) : MatchAt(s, i, p)


Last(s) == s[Len(s)]
Front(s) == SubSeq(s, 1, Len(s) - 1)

\* Option<T>: None is <<>>, Some(v) is <<v>>
None == <<>>
Some(v) == <<v>>
IsSome(o) == o # <<>>
Unwrap(o) == o[1]

(***************************************************************************)
(* std::str::from_utf8: well-formed UTF-8 byte sequences (Unicode          *)
(* Table 3-7).                                                             *)
(***************************************************************************)
IsCont(b) == b >= 128 /\ b <= 191

\* length of the well-formed scalar encoding that starts at s[i]; 0 if none
Utf8CharLen(s, i) ==
    LET b0 == s[i]
        n == Len(s)
        C(k) == i + k <= n /\ IsCont(s[i + k])
    IN  IF b0 <= 127 THEN 1
        ELSE IF b0 >= 194 /\ b0 <= 223 /\ C(1) THEN 2
        ELSE IF b0 = 224 /\ C(1) /\ s[i + 1] >= 160 /\ C(2) THEN 3
        ELSE IF ((b0 >= 225 /\ b0 <= 236) \/ b0 = 238 \/ b0 = 239) /\ C(1) /\ C(2) THEN 3
        ELSE IF b0 = 237 /\ C(1) /\ s[i + 1] <= 159 /\ C(2) THEN 3
        ELSE IF b0 = 240 /\ C(1) /\ s[i + 1] >= 144 /\ C(2) /\ C(3) THEN 4
        ELSE IF b0 >= 241 /\ b0 <= 243 /\ C(1) /\ C(2) /\ C(3) THEN 4
        ELSE IF b0 = 244 /\ C(1) /\ s[i + 1] <= 143 /\ C(2) /\ C(3) THEN 4
        ELSE 0

RECURSIVE Utf8From(_, _)
Utf8From(s, i) ==
    IF i > Len(s) THEN TRUE
    ELSE LET k == Utf8CharLen(s, i)
         IN  k > 0 /\ Utf8From(s, i + k)

IsUtf8(s) == Utf8From(s, 1)

(***************************************************************************)
(* str::trim, str::lines                                                   *)
(***************************************************************************)
\* UTF-8 encodings of the code points with the White_Space property
WhiteSpace ==
    {<<b>> : b \in {9, 10, 11, 12, 13, 32}}
    \cup {<<194, 133>>, <<194, 160>>, <<225, 154, 128>>}
    \cup {<<226, 128, b>> : b \in (128..138) \cup {168, 169, 175}}
    \cup {<<226, 129, 159>>, <<227, 128, 128>>}

RECURSIVE TrimStart(_)
TrimStart(s) ==
    IF \E w \in WhiteSpace : StartsWith(s, w)
    THEN TrimStart(Drop(s, Len(CHOOSE w \in WhiteSpace : StartsWith(s, w))))
    ELSE s

RECURSIVE TrimEnd(_)
TrimEnd(s) ==
    IF \E w \in WhiteSpace : EndsWith(s, w)
    THEN TrimEnd(SubSeq(s, 1, Len(s) - Len(CHOOSE w \in WhiteSpace : EndsWith(s, w))))
    ELSE s

Trim(s) == TrimEnd(TrimStart(s))

\* s.lines().next().unwrap_or("")
FirstLine(s) ==
    IF \E i \in 1..Len(s) : s[i] = LF
    THEN LET i == CHOOSE j \in 1..Len(s) : s[j] = LF /\ \A k \in 1..(j - 1) : s[k] # LF
             l == SubSeq(s, 1, i - 1)
         IN  IF l # <<>> /\ Last(l) = CR THEN Front(l) ELSE l
    ELSE s

\* str::to_lowercase on ASCII text
ToLower(s) == [i \in 1..Len(s) |-> IF s[i] >= 65 /\ s[i] <= 90 THEN s[i] + 32 ELSE s[i]]

(***************************************************************************)
(* std::path::Path::extension (Unix paths)                                 *)
(***************************************************************************)
SLASH == 47
DOT == 46

\* trailing separators and non-leading "." components are not components
RECURSIVE PathNorm(_)
PathNorm(s) ==
    IF s = <<>> THEN s
    ELSE IF Last(s) = SLASH THEN PathNorm(Front(s))
    ELSE IF EndsWith(s, <<SLASH, DOT>>) THEN PathNorm(SubSeq(s, 1, Len(s) - 2))
    ELSE s

\* the part of s after its last occurrence of byte b (all of s if none)
AfterLast(s, b) ==
    IF \E i \in 1..Len(s) : s[i] = b
    THEN Drop(s, CHOOSE i \in 1..Len(s) : s[i] = b /\ \A k \in (i + 1)..Len(s) : s[k] # b)
    ELSE s

\* Path::file_name
FileName(path) ==
    LET n == PathNorm(path)
        last == AfterLast(n, SLASH)
    IN  IF last = <<>> \/ last = <<DOT>> \/ last = <<DOT, DOT>> THEN None ELSE Some(last)

\* Path::extension
Extension(path) ==
    LET fn == FileName(path)
    IN  IF fn = None THEN None
        ELSE LET f == Unwrap(fn)
                 after == AfterLast(f, DOT)
             IN  IF ~(\E i \in 1..Len(f) : f[i] = DOT) THEN None
                 ELSE IF Len(after) = Len(f) - 1 THEN None
                 ELSE Some(after)

(***************************************************************************)
(* DocumentFormat and the four processor families                          *)
(***************************************************************************)
PdfFamily == {"Pdf", "PdfA1", "PdfA2", "PdfA3", "PdfUA"}
OfficeFamily == {"Docx", "Doc", "Xlsx", "Xls", "Pptx", "Ppt"}
ImageFamily == {"Jpeg", "Png", "Gif", "Bmp", "Tiff", "Webp", "Svg", "Heic", "Avif"}
TextFamily == {"PlainText", "Rtf", "Markdown", "Html", "Csv", "Json", "Xml", "Yaml"}

\* every variant named by the enum or by the engine
DocumentFormat ==
    PdfFamily \cup OfficeFamily \cup ImageFamily \cup TextFamily
    \cup {"Docm", "Dot", "Dotx", "Xlsm", "Xlt", "Xltx", "Pptm", "Odt", "Ods", "Odp",
          "Odg", "Txt", "Zip", "Rar", "SevenZ", "Tar", "GzTar", "Epub", "Mobi", "Djvu"}

\* Result<T>: Ok(v) or Err(FilefireError::kind(msg ++ detail))
Ok(v) == [ok |-> TRUE, val |-> v, err |-> "", msg |-> "", detail |-> <<>>]
Err(kind, m, d) == [ok |-> FALSE, val |-> "", err |-> kind, msg |-> m, detail |-> d]

(***************************************************************************)
(* FormatDetector                                                          *)
(***************************************************************************)
MAGIC_PDF == Bytes("%PDF-")
MAGIC_ZIP == <<80, 75, 3, 4>>
MAGIC_OLE == <<208, 207, 17, 224, 161, 177, 26, 225>>
MAGIC_JPEG == <<255, 216, 255>>
MAGIC_PNG == <<137, 80, 78, 71, 13, 10, 26, 10>>
MAGIC_GIF87 == Bytes("GIF87a")
MAGIC_GIF89 == Bytes("GIF89a")
MAGIC_BMP == Bytes("BM")
MAGIC_TIFF_LE == <<73, 73, 42, 0>>
MAGIC_TIFF_BE == <<77, 77, 0, 42>>
MAGIC_RIFF == Bytes("RIFF")

\* variant: PDF/A detection added as a second entry on the PDF header
magic_bytes_PdfA ==
    { <<MAGIC_PDF, "Pdf">>, <<Bytes("%PDF-1"), "PdfA1">>, <<MAGIC_ZIP, "Docx">>,
      <<MAGIC_OLE, "Doc">>, <<MAGIC_JPEG, "Jpeg">>, <<MAGIC_PNG, "Png">>,
      <<MAGIC_GIF87, "Gif">>, <<MAGIC_GIF89, "Gif">>, <<MAGIC_BMP, "Bmp">>,
      <<MAGIC_TIFF_LE, "Tiff">>, <<MAGIC_TIFF_BE, "Tiff">>, <<MAGIC_RIFF, "Webp">> }

\* variant: the ZIP signature refined by a second, shorter archive entry
magic_bytes_Overlapping ==
    { <<MAGIC_PDF, "Pdf">>, <<MAGIC_ZIP, "Docx">>, <<Bytes("PK"), "Zip">>,
      <<MAGIC_OLE, "Doc">>, <<MAGIC_JPEG, "Jpeg">>, <<MAGIC_PNG, "Png">>,
      <<MAGIC_GIF87, "Gif">>, <<MAGIC_GIF89, "Gif">>, <<MAGIC_BMP, "Bmp">>,
      <<MAGIC_TIFF_LE, "Tiff">>, <<MAGIC_TIFF_BE, "Tiff">>, <<MAGIC_RIFF, "Webp">> }

\* FormatDetector::new: the magic_bytes map, as its set of (key, value) entries
magic_bytes ==
    { <<MAGIC_PDF, "Pdf">>,
      <<MAGIC_ZIP, "Docx">>,
      <<MAGIC_OLE, "Doc">>,
      <<MAGIC_JPEG, "Jpeg">>,
      <<MAGIC_PNG, "Png">>,
      <<MAGIC_GIF87, "Gif">>,
      <<MAGIC_GIF89, "Gif">>,
      <<MAGIC_BMP, "Bmp">>,
      <<MAGIC_TIFF_LE, "Tiff">>,
      <<MAGIC_TIFF_BE, "Tiff">>,
      <<MAGIC_RIFF, "Webp">> }

\* the entries whose key is a prefix of the content
MagicMatches(content) == {e \in magic_bytes : StartsWith(content, e[1])}

\* the match on ext_str.to_lowercase() of detect_format
ExtensionTable ==
    { <<Bytes("pdf"), "Pdf">>, <<Bytes("docx"), "Docx">>, <<Bytes("doc"), "Doc">>,
      <<Bytes("xlsx"), "Xlsx">>, <<Bytes("xls"), "Xls">>, <<Bytes("pptx"), "Pptx">>,
      <<Bytes("ppt"), "Ppt">>, <<Bytes("jpg"), "Jpeg">>, <<Bytes("jpeg"), "Jpeg">>,
      <<Bytes("png"), "Png">>, <<Bytes("gif"), "Gif">>, <<Bytes("bmp"), "Bmp">>,
      <<Bytes("tiff"), "Tiff">>, <<Bytes("tif"), "Tiff">>, <<Bytes("webp"), "Webp">>,
      <<Bytes("svg"), "Svg">>, <<Bytes("txt"), "PlainText">>, <<Bytes("rtf"), "Rtf">>,
      <<Bytes("md"), "Markdown">>, <<Bytes("html"), "Html">>, <<Bytes("htm"), "Html">>,
      <<Bytes("csv"), "Csv">>, <<Bytes("json"), "Json">>, <<Bytes("xml"), "Xml">>,
      <<Bytes("yaml"), "Yaml">>, <<Bytes("yml"), "Yaml">> }

KnownExtensions == {e[1] : e \in ExtensionTable}

\* variant: the extension is looked up as written, without to_lowercase
DetectByExtensionCaseSensitive(ext_str) ==
    IF ext_str \in KnownExtensions
    THEN Ok((CHOOSE e \in ExtensionTable : e[1] = ext_str)[2])
    ELSE Err("UnsupportedFormat", "Unknown extension: ", ext_str)

\* the extension arm of detect_format, for Some(ext_str)
DetectByExtension(ext_str) ==
    LET low == ToLower(ext_str)
    IN  IF low \in KnownExtensions
        THEN Ok((CHOOSE e \in ExtensionTable : e[1] = low)[2])
        ELSE Err("UnsupportedFormat", "Unknown extension: ", ext_str)

T_DOCTYPE == Bytes("<!DOCTYPE html")
T_HTML == Bytes("<html")
T_XMLDECL == Bytes("<?xml")
T_YAML_LINE == Bytes("---") \o <<LF>>
T_YAML == Bytes("---")
T_STARS == Bytes("**")
T_FENCE == <<96, 96, 96>>
CH_LBRACE == Bytes("{")
CH_RBRACE == Bytes("}")
CH_LT == Bytes("<")
CH_GT == Bytes(">")
CH_COMMA == Bytes(",")
CH_HASH == Bytes("#")

\* variant: the Markdown test comes before the CSV test
SniffText_MarkdownFirst(content_str) ==
    LET trimmed == Trim(content_str)
    IN  IF StartsWith(trimmed, T_DOCTYPE) \/ StartsWith(trimmed, T_HTML) THEN "Html"
        ELSE IF StartsWith(trimmed, CH_LBRACE) /\ EndsWith(trimmed, CH_RBRACE) THEN "Json"
        ELSE IF StartsWith(trimmed, T_XMLDECL)
                \/ (StartsWith(trimmed, CH_LT) /\ EndsWith(trimmed, CH_GT)) THEN "Xml"
        ELSE IF Contains(trimmed, T_YAML_LINE) \/ StartsWith(trimmed, T_YAML) THEN "Yaml"
        ELSE IF Contains(trimmed, CH_HASH) \/ Contains(trimmed, T_STARS)
                \/ Contains(trimmed, T_FENCE) THEN "Markdown"
        ELSE IF Contains(trimmed, CH_COMMA) /\ Contains(FirstLine(trimmed), CH_COMMA) THEN "Csv"
        ELSE "PlainText"

\* the content-sniffing arm of detect_format, for valid UTF-8 content
SniffText(content_str) ==
    LET trimmed == Trim(content_str)
    IN  IF StartsWith(trimmed, T_DOCTYPE) \/ StartsWith(trimmed, T_HTML) THEN "Html"
        ELSE IF StartsWith(trimmed, CH_LBRACE) /\ EndsWith(trimmed, CH_RBRACE) THEN "Json"
        ELSE IF StartsWith(trimmed, T_XMLDECL)
                \/ (StartsWith(trimmed, CH_LT) /\ EndsWith(trimmed, CH_GT)) THEN "Xml"
        ELSE IF Contains(trimmed, T_YAML_LINE) \/ StartsWith(trimmed, T_YAML) THEN "Yaml"
        ELSE IF Contains(trimmed, CH_COMMA) /\ Contains(FirstLine(trimmed), CH_COMMA) THEN "Csv"
        ELSE IF Contains(trimmed, CH_HASH) \/ Contains(trimmed, T_STARS)
                \/ Contains(trimmed, T_FENCE) THEN "Markdown"
        ELSE "PlainText"

\* the formats the return statements of the sniffing arm name
SniffedFormats == {"Html", "Json", "Xml", "Yaml", "Csv", "Markdown", "PlainText"}

\* variant: the content is sniffed without the UTF-8 check, so it never fails
DetectNoMagicUnchecked(content, filename) ==
    IF IsSome(filename) /\ IsSome(Extension(Unwrap(filename)))
    THEN DetectByExtension(Unwrap(Extension(Unwrap(filename))))
    ELSE Ok(SniffText(content))

\* detect_format after the magic loop found no entry
DetectNoMagic(content, filename) ==
    IF IsSome(filename) /\ IsSome(Extension(Unwrap(filename)))
    THEN DetectByExtension(Unwrap(Extension(Unwrap(filename))))
    ELSE IF IsUtf8(content) THEN Ok(SniffText(content))
    ELSE Err("UnsupportedFormat", "Unable to detect document format", <<>>)

\* variant: a known file extension is trusted before the magic bytes
detect_format_ExtensionFirst(content, filename) ==
    IF IsSome(filename) /\ IsSome(Extension(Unwrap(filename)))
    THEN {DetectNoMagic(content, filename)}
    ELSE IF MagicMatches(content) # {}
    THEN {Ok(e[2]) : e \in MagicMatches(content)}
    ELSE {DetectNoMagic(content, filename)}

\* FormatDetector::detect_format.  The magic loop iterates a HashMap, whose
\* order is unspecified: the first matching entry met may be any matching
\* entry, so the call can return the format of any of them.
detect_format(content, filename) ==
    IF MagicMatches(content) # {}
    THEN {Ok(e[2]) : e \in MagicMatches(content)}
    ELSE {DetectNoMagic(content, filename)}

(***************************************************************************)
(* String::from_utf8_lossy: every maximal ill-formed subpart becomes one   *)
(* U+FFFD (EF BF BD).                                                      *)
(***************************************************************************)
REPLACEMENT == <<239, 191, 189>>

\* length of the ill-formed subpart starting at s[i] (s[i] starts no
\* well-formed encoding)
InvalidLen(s, i) ==
    LET b0 == s[i]
        n == Len(s)
        C(k) == i + k <= n /\ IsCont(s[i + k])
        Second3 == i + 1 <= n /\
                   \/ b0 = 224 /\ s[i + 1] >= 160 /\ s[i + 1] <= 191
                   \/ ((b0 >= 225 /\ b0 <= 236) \/ b0 >= 238) /\ IsCont(s[i + 1])
                   \/ b0 = 237 /\ s[i + 1] >= 128 /\ s[i + 1] <= 159
        Second4 == i + 1 <= n /\
                   \/ b0 = 240 /\ s[i + 1] >= 144 /\ s[i + 1] <= 191
                   \/ b0 >= 241 /\ b0 <= 243 /\ IsCont(s[i + 1])
                   \/ b0 = 244 /\ s[i + 1] >= 128 /\ s[i + 1] <= 143
    IN  IF b0 >= 224 /\ b0 <= 239
        THEN IF ~Second3 THEN 1 ELSE 2
        ELSE IF b0 >= 240 /\ b0 <= 244
        THEN IF ~Second4 THEN 1 ELSE IF ~C(2) THEN 2 ELSE 3
        ELSE 1

RECURSIVE LossyFrom(_, _)
LossyFrom(s, i) ==
    IF i > Len(s) THEN <<>>
    ELSE LET k == Utf8CharLen(s, i)
         IN  IF k > 0
             THEN SubSeq(s, i, i + k - 1) \o LossyFrom(s, i + k)
             ELSE REPLACEMENT \o LossyFrom(s, i + InvalidLen(s, i))

from_utf8_lossy(s) == LossyFrom(s, 1)

\* str.chars().count() of well-formed text
RECURSIVE CharsFrom(_, _)
CharsFrom(s, i) == IF i > Len(s) THEN 0 ELSE 1 + CharsFrom(s, i + Utf8CharLen(s, i))

CharCount(s) == CharsFrom(s, 1)

(***************************************************************************)
(* regex::Regex::find_iter for the patterns of the source.  A pattern is   *)
(* an alternation of literals, each optionally followed by \s; find_iter   *)
(* yields the leftmost-first, non-overlapping matches.                     *)
(***************************************************************************)
Lit(str) == [lit |-> str, ws |-> FALSE]
LitWs(str) == [lit |-> str, ws |-> TRUE]

\* length of the White_Space character at s[i], 0 if there is none (\s)
WsLenAt(s, i) ==
    IF \E w \in WhiteSpace : MatchAt(s, i, w)
    THEN Len(CHOOSE w \in WhiteSpace : MatchAt(s, i, w))
    ELSE 0

\* length of the match of one alternative at position i, 0 if it does not match
AltLenAt(s, i, alt) ==
    IF ~MatchAt(s, i, alt.lit) THEN 0
    ELSE IF ~alt.ws THEN Len(alt.lit)
    ELSE IF WsLenAt(s, i + Len(alt.lit)) = 0 THEN 0
    ELSE Len(alt.lit) + WsLenAt(s, i + Len(alt.lit))

\* length of the match at position i: that of the first alternative that matches
AltsLenAt(s, i, alts) ==
    IF \E k \in 1..Len(alts) : AltLenAt(s, i, alts[k]) > 0
    THEN AltLenAt(s, i, alts[CHOOSE k \in 1..Len(alts) :
                                /\ AltLenAt(s, i, alts[k]) > 0
                                /\ \A j \in 1..(k - 1) : AltLenAt(s, i, alts[j]) = 0])
    ELSE 0

\* start offsets (m.start(), 0-based) of the matches found from position i on
RECURSIVE FindIter(_, _, _)
FindIter(s, i, alts) ==
    IF i > Len(s) THEN <<>>
    ELSE LET n == AltsLenAt(s, i, alts)
         IN  IF n > 0 THEN <<i - 1>> \o FindIter(s, i + n, alts)
             ELSE FindIter(s, i + 1, alts)

(***************************************************************************)
(* SecurityAnalyzer                                                        *)
(***************************************************************************)
P_JS == <<Lit(Bytes("<script")), Lit(Bytes("javascript:")), Lit(Bytes("eval(")),
          Lit(Bytes("setTimeout(")), Lit(Bytes("setInterval("))>>
P_EMBED == <<Lit(Bytes("/EmbeddedFile")), Lit(Bytes("/FileAttachment"))>>
P_ACTION == <<LitWs(Bytes("/AA")), Lit(Bytes("/OpenAction")), LitWs(Bytes("/JS"))>>

\* load_threat_patterns.  compiles: whether regex::Regex::new accepts the
\* pattern text; the External Links pattern uses the look-ahead (?!...),
\* which the regex crate rejects with a syntax error, so it never compiles
\* and its alternatives are never consulted.
threat_patterns ==
    << [name |-> "JavaScript", compiles |-> TRUE, alts |-> P_JS, severity |-> "Medium"],
       [name |-> "External Links", compiles |-> FALSE, alts |-> <<>>, severity |-> "Low"],
       [name |-> "Embedded Files", compiles |-> TRUE, alts |-> P_EMBED, severity |-> "Medium"],
       [name |-> "Form Actions", compiles |-> TRUE, alts |-> P_ACTION, severity |-> "High"] >>

\* the score_reduction match of analyze_content
score_reduction(severity) ==
    CASE severity = "Low" -> 5
      [] severity = "Medium" -> 15
      [] severity = "High" -> 30
      [] severity = "Critical" -> 50

\* the matches of pattern k in the text ( <<>> when the pattern does not compile )
PatternMatches(content_str, k) ==
    IF threat_patterns[k].compiles THEN FindIter(content_str, 1, threat_patterns[k].alts)
    ELSE <<>>

\* the threats vector after the first k patterns
RECURSIVE ThreatsUpTo(_, _)
ThreatsUpTo(content_str, k) ==
    IF k = 0 THEN <<>>
    ELSE LET m == PatternMatches(content_str, k)
         IN  IF m # <<>>
             THEN Append(ThreatsUpTo(content_str, k - 1),
                         [threat_type |-> threat_patterns[k].name,
                          severity |-> threat_patterns[k].severity,
                          occurrences |-> Len(m),
                          locations |-> m])
             ELSE ThreatsUpTo(content_str, k - 1)

\* the running security_score after the first k patterns (before the floor)
RECURSIVE ScoreUpTo(_, _)
ScoreUpTo(content_str, k) ==
    IF k = 0 THEN 100
    ELSE ScoreUpTo(content_str, k - 1)
         - score_reduction(threat_patterns[k].severity) * Len(PatternMatches(content_str, k))

Max(a, b) == IF a >= b THEN a ELSE b

\* variant: the lower bound of each band is exclusive
risk_level_Exclusive(security_score) ==
    IF security_score > 80 /\ security_score <= 100 THEN "Low"
    ELSE IF security_score > 60 /\ security_score <= 79 THEN "Medium"
    ELSE IF security_score > 40 /\ security_score <= 59 THEN "High"
    ELSE "Critical"

\* the risk_level match of analyze_content
risk_level(security_score) ==
    IF security_score >= 80 /\ security_score <= 100 THEN "Low"
    ELSE IF security_score >= 60 /\ security_score <= 79 THEN "Medium"
    ELSE IF security_score >= 40 /\ security_score <= 59 THEN "High"
    ELSE "Critical"

S_ENCRYPT == Bytes("/Encrypt")
S_SIG == Bytes("/Sig")
S_DOCMDP == Bytes("/DocMDP")
S_VBA == Bytes("vbaProject.bin")
S_MACROS == Bytes("macros/")

check_encryption(content, format) ==
    IF format \in PdfFamily THEN Contains(from_utf8_lossy(content), S_ENCRYPT)
    ELSE IF format \in {"Docx", "Xlsx", "Pptx"}
    THEN Len(content) > 8 /\ SubSeq(content, 1, 8) = MAGIC_OLE
    ELSE FALSE

check_digital_signature(content, format) ==
    IF format \in PdfFamily
    THEN Contains(from_utf8_lossy(content), S_SIG) \/ Contains(from_utf8_lossy(content), S_DOCMDP)
    ELSE FALSE

check_macros(content, format) ==
    IF format \in {"Docx", "Xlsx", "Pptx"}
    THEN Contains(from_utf8_lossy(content), S_VBA) \/ Contains(from_utf8_lossy(content), S_MACROS)
    ELSE FALSE

U_HTTPS == Bytes("https://")
U_HTTP == Bytes("http://")
U_FILE == Bytes("file://")
CH_RPAREN == 41

\* length of the longest run of [^\s\)] characters starting at s[i]
RECURSIVE RunLen(_, _)
RunLen(s, i) ==
    IF i > Len(s) \/ s[i] = CH_RPAREN \/ WsLenAt(s, i) > 0 THEN 0
    ELSE Utf8CharLen(s, i) + RunLen(s, i + Utf8CharLen(s, i))

\* length of the match of  scheme [^\s\)]+  at position i, for the first
\* scheme of the list that matches; 0 if none
RefLenAt(s, i, schemes) ==
    IF \E k \in 1..Len(schemes) :
           MatchAt(s, i, schemes[k]) /\ RunLen(s, i + Len(schemes[k])) > 0
    THEN LET k == CHOOSE j \in 1..Len(schemes) :
                      /\ MatchAt(s, i, schemes[j]) /\ RunLen(s, i + Len(schemes[j])) > 0
                      /\ \A h \in 1..(j - 1) :
                             ~(MatchAt(s, i, schemes[h]) /\ RunLen(s, i + Len(schemes[h])) > 0)
         IN  Len(schemes[k]) + RunLen(s, i + Len(schemes[k]))
    ELSE 0

RECURSIVE FindRefs(_, _, _)
FindRefs(s, i, schemes) ==
    IF i > Len(s) THEN <<>>
    ELSE LET n == RefLenAt(s, i, schemes)
         IN  IF n > 0 THEN <<SubSeq(s, i, i + n - 1)>> \o FindRefs(s, i + n, schemes)
             ELSE FindRefs(s, i + 1, schemes)

extract_external_references(content) ==
    LET content_str == from_utf8_lossy(content)
    IN  FindRefs(content_str, 1, <<U_HTTPS, U_HTTP>>) \o FindRefs(content_str, 1, <<U_FILE>>)

(***************************************************************************)
(* The External Links pattern as its text declares it:                     *)
(*   https?://(?!(?:localhost|127\.0\.0\.1|192\.168\.|10\.|                *)
(*                 172\.(?:1[6-9]|2[0-9]|3[01])\.))[^\s]+                   *)
(* a scheme, not followed by a private host, then a run of non-space       *)
(* characters.                                                             *)
(***************************************************************************)
PrivateHosts ==
    { Bytes("localhost"), Bytes("127.0.0.1"), Bytes("192.168."), Bytes("10.") }
    \cup { Bytes("172.") \o Bytes(n) \o Bytes(".") :
             n \in {"16", "17", "18", "19", "20", "21", "22", "23", "24", "25", "26",
                    "27", "28", "29", "30", "31"} }

\* length of the longest run of [^\s] characters starting at s[i]
RECURSIVE NonWsRunLen(_, _)
NonWsRunLen(s, i) ==
    IF i > Len(s) \/ WsLenAt(s, i) > 0 THEN 0
    ELSE Utf8CharLen(s, i) + NonWsRunLen(s, i + Utf8CharLen(s, i))

\* length of the match of the declared pattern at position i, 0 if none
ExternalLinkLenAt(s, i) ==
    LET h == IF MatchAt(s, i, U_HTTPS) THEN Len(U_HTTPS)
             ELSE IF MatchAt(s, i, U_HTTP) THEN Len(U_HTTP) ELSE 0
    IN  IF h = 0 THEN 0
        ELSE IF \E p \in PrivateHosts : MatchAt(s, i + h, p) THEN 0
        ELSE IF NonWsRunLen(s, i + h) = 0 THEN 0
        ELSE h + NonWsRunLen(s, i + h)

\* start offsets of the occurrences of the declared pattern from position i on
RECURSIVE FindLinks(_, _)
FindLinks(s, i) ==
    IF i > Len(s) THEN <<>>
    ELSE LET n == ExternalLinkLenAt(s, i)
         IN  IF n > 0 THEN <<i - 1>> \o FindLinks(s, i + n)
             ELSE FindLinks(s, i + 1)

\* the occurrences of declared pattern k in the text, by the pattern's text
DeclaredMatches(content_str, k) ==
    IF threat_patterns[k].name = "External Links" THEN FindLinks(content_str, 1)
    ELSE FindIter(content_str, 1, threat_patterns[k].alts)

\* variant: the score is not floored at 0
analyze_content_NoFloor(content, format) ==
    LET content_str == from_utf8_lossy(content)
        security_score == ScoreUpTo(content_str, Len(threat_patterns))
    IN  [risk_level |-> risk_level(security_score),
         security_score |-> security_score,
         threats_detected |-> ThreatsUpTo(content_str, Len(threat_patterns)),
         is_encrypted |-> check_encryption(content, format),
         has_digital_signature |-> check_digital_signature(content, format),
         contains_macros |-> check_macros(content, format),
         external_references |-> extract_external_references(content)]

\* SecurityAnalyzer::analyze_content; it has no failing path
analyze_content(content, format) ==
    LET content_str == from_utf8_lossy(content)
        security_score == Max(ScoreUpTo(content_str, Len(threat_patterns)), 0)
    IN  [risk_level |-> risk_level(security_score),
         security_score |-> security_score,
         threats_detected |-> ThreatsUpTo(content_str, Len(threat_patterns)),
         is_encrypted |-> check_encryption(content, format),
         has_digital_signature |-> check_digital_signature(content, format),
         contains_macros |-> check_macros(content, format),
         external_references |-> extract_external_references(content)]

(***************************************************************************)
(* ValidationEngine.  A ValidationRule is a record                         *)
(*   [name, rule_type, threshold : Option, allowed_formats : Option,       *)
(*    required : Option]                                                   *)
(* as apply_rule reads it.                                                 *)
(***************************************************************************)
DEFAULT_MAX_FILE_SIZE == 10000000

Message(rule, text, n, f, sev) ==
    [rule_name |-> rule.name, message |-> text, size |-> n, format |-> f,
     severity |-> sev, location |-> None]

\* variant: a file of exactly the threshold size is refused
apply_rule_AtLeast(content, format, rule) ==
    CASE rule.rule_type = "MaxFileSize" ->
           IF Len(content) >= (IF IsSome(rule.threshold) THEN Unwrap(rule.threshold)
                               ELSE DEFAULT_MAX_FILE_SIZE)
           THEN Ok(Message(rule, "File size {} exceeds maximum allowed size",
                           Len(content), "", "Error"))
           ELSE Ok(Message(rule, "File size within acceptable limits", -1, "", "Info"))
      [] rule.rule_type = "AllowedFormats" ->
           IF ~IsSome(rule.allowed_formats) \/ format \in Unwrap(rule.allowed_formats)
           THEN Ok(Message(rule, "Document format is allowed", -1, "", "Info"))
           ELSE Ok(Message(rule, "Document format {:?} is not allowed", -1, format, "Error"))
      [] rule.rule_type = "NoMacros" ->
           IF Contains(from_utf8_lossy(content), S_VBA)
              \/ Contains(from_utf8_lossy(content), S_MACROS)
           THEN Ok(Message(rule, "Document contains macros which are not allowed",
                           -1, "", "Error"))
           ELSE Ok(Message(rule, "No macros detected", -1, "", "Info"))
      [] rule.rule_type = "RequireEncryption" ->
           LET is_encrypted == format \in PdfFamily
                               /\ Contains(from_utf8_lossy(content), S_ENCRYPT)
           IN  IF (IF IsSome(rule.required) THEN Unwrap(rule.required) ELSE FALSE)
                  /\ ~is_encrypted
               THEN Ok(Message(rule, "Document encryption is required but not present",
                               -1, "", "Error"))
               ELSE Ok(Message(rule,
                               IF is_encrypted THEN "Document is encrypted"
                               ELSE "Document is not encrypted",
                               -1, "", "Info"))

\* ValidationEngine::apply_rule; every arm yields Ok(message)
apply_rule(content, format, rule) ==
    CASE rule.rule_type = "MaxFileSize" ->
           IF Len(content) > (IF IsSome(rule.threshold) THEN Unwrap(rule.threshold)
                              ELSE DEFAULT_MAX_FILE_SIZE)
           THEN Ok(Message(rule, "File size {} exceeds maximum allowed size",
                           Len(content), "", "Error"))
           ELSE Ok(Message(rule, "File size within acceptable limits", -1, "", "Info"))
      [] rule.rule_type = "AllowedFormats" ->
           IF ~IsSome(rule.allowed_formats) \/ format \in Unwrap(rule.allowed_formats)
           THEN Ok(Message(rule, "Document format is allowed", -1, "", "Info"))
           ELSE Ok(Message(rule, "Document format {:?} is not allowed", -1, format, "Error"))
      [] rule.rule_type = "NoMacros" ->
           IF Contains(from_utf8_lossy(content), S_VBA)
              \/ Contains(from_utf8_lossy(content), S_MACROS)
           THEN Ok(Message(rule, "Document contains macros which are not allowed",
                           -1, "", "Error"))
           ELSE Ok(Message(rule, "No macros detected", -1, "", "Info"))
      [] rule.rule_type = "RequireEncryption" ->
           LET is_encrypted == format \in PdfFamily
                               /\ Contains(from_utf8_lossy(content), S_ENCRYPT)
           IN  IF (IF IsSome(rule.required) THEN Unwrap(rule.required) ELSE FALSE)
                  /\ ~is_encrypted
               THEN Ok(Message(rule, "Document encryption is required but not present",
                               -1, "", "Error"))
               ELSE Ok(Message(rule,
                               IF is_encrypted THEN "Document is encrypted"
                               ELSE "Document is not encrypted",
                               -1, "", "Info"))

\* the message the loop of validate_document files for one rule
RuleMessage(content, format, rule) ==
    LET r == apply_rule(content, format, rule)
    IN  IF r.ok THEN r.val
        ELSE Message(rule, "Validation rule failed: {}", -1, "", "Error")

\* variant: a message is put at the front of its list
RECURSIVE MessagesOfReversed(_, _, _, _, _)
MessagesOfReversed(content, format, rules, k, sev) ==
    IF k = 0 THEN <<>>
    ELSE LET m == RuleMessage(content, format, rules[k])
             rest == MessagesOfReversed(content, format, rules, k - 1, sev)
         IN  IF m.severity = sev THEN <<m>> \o rest ELSE rest

\* the messages of the given severity, in rule order
RECURSIVE MessagesOf(_, _, _, _, _)
MessagesOf(content, format, rules, k, sev) ==
    IF k = 0 THEN <<>>
    ELSE LET m == RuleMessage(content, format, rules[k])
             rest == MessagesOf(content, format, rules, k - 1, sev)
         IN  IF m.severity = sev THEN Append(rest, m) ELSE rest

\* variant: a document is valid only when no rule left any message
validate_document_NoMessages(content, format, rules) ==
    LET errors == MessagesOf(content, format, rules, Len(rules), "Error")
        info == MessagesOf(content, format, rules, Len(rules), "Info")
    IN  [is_valid |-> errors = <<>> /\ info = <<>>,
         errors |-> errors,
         warnings |-> MessagesOf(content, format, rules, Len(rules), "Warning"),
         info |-> info]

\* ValidationEngine::validate_document; it has no failing path
validate_document(content, format, rules) ==
    LET errors == MessagesOf(content, format, rules, Len(rules), "Error")
    IN  [is_valid |-> errors = <<>>,
         errors |-> errors,
         warnings |-> MessagesOf(content, format, rules, Len(rules), "Warning"),
         info |-> MessagesOf(content, format, rules, Len(rules), "Info")]

(***************************************************************************)
(* The four format processors.  A document is a record                     *)
(*   [bytes, container, parsed]                                            *)
(* bytes is the content; container ("ok" or "corrupt") is the verdict of   *)
(* the third-party parser the processor hands the bytes to (lopdf,         *)
(* docx_rs, calamine, image) and parsed = [pages, text, images,            *)
(* annotations, skipped] is what the processor gets out of a container     *)
(* that is ok: the pages, the extracted text, the images and annotations   *)
(* it could parse, and the number of sub-structures (a page's text, an     *)
(* annotation, a form field) it could not parse and left out.              *)
(***************************************************************************)
Stats(pages, chars, images, annotations) ==
    [pages_processed |-> pages, text_extracted_chars |-> chars,
     images_extracted |-> images, annotations_found |-> annotations,
     errors_encountered |-> 0, warnings_generated |-> 0]

\* a processor's Ok value: which processor produced it, the format and the
\* password it was handed, the extracted text and the stats
Processed(variant, format, password, text, stats) ==
    [variant |-> variant, format |-> format, password |-> password,
     text_content |-> text, stats |-> stats]

\* PdfProcessor::process_document
PdfProcess(doc, password) ==
    IF doc.container # "ok" THEN Err("Pdf", "Failed to load PDF: {}", <<>>)
    ELSE Ok(Processed("Pdf", "", password, doc.parsed.text,
                      Stats(doc.parsed.pages, CharCount(doc.parsed.text), 0,
                            doc.parsed.annotations)))

\* OfficeProcessor::process_document
OfficeProcess(doc, format) ==
    CASE format = "Docx" ->
           IF doc.container # "ok" THEN Err("Office", "Failed to process DOCX: {}", <<>>)
           ELSE Ok(Processed("Office", format, None, doc.parsed.text,
                             Stats(1, CharCount(doc.parsed.text), doc.parsed.images, 0)))
      [] format \in {"Xlsx", "Xls"} ->
           IF doc.container # "ok"
           THEN Err("Office", "Failed to process " \o (IF format = "Xlsx" THEN "XLSX" ELSE "XLS")
                              \o ": {}", <<>>)
           ELSE Ok(Processed("Office", format, None, doc.parsed.text,
                             Stats(doc.parsed.pages, CharCount(doc.parsed.text), 0, 0)))
      [] format = "Doc" -> Err("Office", "DOC format processing not yet implemented", <<>>)
      [] format = "Pptx" -> Err("Office", "PPTX format processing not yet implemented", <<>>)
      [] format = "Ppt" -> Err("Office", "PPT format processing not yet implemented", <<>>)
      [] OTHER -> Err("UnsupportedFormat", "Unsupported Office format: " \o format, <<>>)

\* ImageProcessor::process_document
ImageProcess(doc, format) ==
    IF doc.container # "ok" THEN Err("Image", "Failed to load image: {}", <<>>)
    ELSE Ok(Processed("Image", format, None, <<>>, Stats(1, 0, 1, 0)))

\* TextProcessor::process_document; decode_text yields the lossy UTF-8 text
\* for every encoding name detect_encoding returns
TextProcess(doc, format) ==
    LET text_content == from_utf8_lossy(doc.bytes)
    IN  Ok(Processed("Text", format, None, text_content,
                     Stats(1, CharCount(text_content), 0, 0)))

(***************************************************************************)
(* DocumentProcessingEngine                                                *)
(***************************************************************************)
Families == {"Pdf", "Office", "Image", "Text"}

\* variant: the image arm lacks Svg
DispatchFamilyNoSvg(format) ==
    IF format \in {"Pdf", "PdfA1", "PdfA2", "PdfA3", "PdfUA"} THEN "Pdf"
    ELSE IF format \in {"Docx", "Doc", "Xlsx", "Xls", "Pptx", "Ppt"} THEN "Office"
    ELSE IF format \in {"Jpeg", "Png", "Gif", "Bmp", "Tiff", "Webp", "Heic", "Avif"}
    THEN "Image"
    ELSE IF format \in {"PlainText", "Rtf", "Markdown", "Html", "Csv", "Json", "Xml", "Yaml"}
    THEN "Text"
    ELSE "Unsupported"

\* the match of process_document on detected_format: the processor that is
\* locked and called, "Unsupported" for the wildcard arm
DispatchFamily(format) ==
    IF format \in {"Pdf", "PdfA1", "PdfA2", "PdfA3", "PdfUA"} THEN "Pdf"
    ELSE IF format \in {"Docx", "Doc", "Xlsx", "Xls", "Pptx", "Ppt"} THEN "Office"
    ELSE IF format \in {"Jpeg", "Png", "Gif", "Bmp", "Tiff", "Webp", "Svg", "Heic", "Avif"}
    THEN "Image"
    ELSE IF format \in {"PlainText", "Rtf", "Markdown", "Html", "Csv", "Json", "Xml", "Yaml"}
    THEN "Text"
    ELSE "Unsupported"

\* the match of extract_text on detected_format (no image arm)
ExtractFamily(format) ==
    IF format \in {"Pdf", "PdfA1", "PdfA2", "PdfA3", "PdfUA"} THEN "Pdf"
    ELSE IF format \in {"Docx", "Doc", "Xlsx", "Xls", "Pptx", "Ppt"} THEN "Office"
    ELSE IF format \in {"PlainText", "Rtf", "Markdown", "Html", "Csv", "Json", "Xml", "Yaml"}
    THEN "Text"
    ELSE "Unsupported"

\* the processor call made inside the arm of the given family; only
\* process_document forwards the caller's password
RunProcessor(family, op, doc, format, password) ==
    CASE family = "Pdf" -> PdfProcess(doc, IF op = "process_document" THEN password ELSE None)
      [] family = "Office" -> OfficeProcess(doc, format)
      [] family = "Image" -> ImageProcess(doc, format)
      [] family = "Text" -> TextProcess(doc, format)

\* variant: the error and warning counts are those of the processor
overall_stats_ProcessorCounts(processing_result, validation_result, elapsed) ==
    [processing_time_ms |-> elapsed,
     memory_used_mb |-> 0,
     pages_processed |-> processing_result.stats.pages_processed,
     text_extracted_chars |-> processing_result.stats.text_extracted_chars,
     images_extracted |-> processing_result.stats.images_extracted,
     annotations_found |-> processing_result.stats.annotations_found,
     errors_encountered |-> processing_result.stats.errors_encountered,
     warnings_generated |-> processing_result.stats.warnings_generated]

\* overall_stats of process_document: counters of the chosen processor,
\* wall-clock time of the call, counts of the validation result
overall_stats(processing_result, validation_result, elapsed) ==
    [processing_time_ms |-> elapsed,
     memory_used_mb |-> 0,
     pages_processed |-> processing_result.stats.pages_processed,
     text_extracted_chars |-> processing_result.stats.text_extracted_chars,
     images_extracted |-> processing_result.stats.images_extracted,
     annotations_found |-> processing_result.stats.annotations_found,
     errors_encountered |-> Len(validation_result.errors),
     warnings_generated |-> Len(validation_result.warnings)]

\* the ProcessedDocument built at the end of process_document
ProcessedDocument(format, security_analysis, validation_result, processing_result, filename, elapsed) ==
    [format |-> format,
     security_analysis |-> security_analysis,
     validation_result |-> validation_result,
     processing_result |-> processing_result,
     overall_stats |-> overall_stats(processing_result, validation_result, elapsed),
     filename |-> filename]

(***************************************************************************)
(* Bounds and the inputs the requests draw from                            *)
(***************************************************************************)
\* number of concurrent requests (tasks calling into one engine)
NumRequests == 2
\* largest wall-clock duration of a call, in ms
MaxElapsedMs == 1

Requests == 1..NumRequests

NoParse == [pages |-> 0, text |-> <<>>, images |-> 0, annotations |-> 0, skipped |-> 0]

\* a loadable PDF with three automatic actions and an encryption dictionary
D_PDF_OK ==
    [bytes |-> Bytes("%PDF-1 /JS /JS /JS /Encrypt"),
     container |-> "ok",
     parsed |-> [pages |-> 2, text |-> Bytes("hi"), images |-> 0, annotations |-> 1,
                 skipped |-> 0]]
\* a truncated PDF: the header only
D_PDF_BAD == [bytes |-> Bytes("%PDF-1"), container |-> "corrupt", parsed |-> NoParse]
\* JSON text with one script tag
D_TEXT == [bytes |-> Bytes("{\"k\":\"<script>\"}"), container |-> "ok", parsed |-> NoParse]
\* bytes that are no magic and not UTF-8
D_BIN == [bytes |-> <<255, 254, 0>>, container |-> "corrupt", parsed |-> NoParse]
D_PNG == [bytes |-> MAGIC_PNG \o Bytes("x"), container |-> "ok", parsed |-> NoParse]
\* a ZIP container with a macro project
D_ZIP ==
    [bytes |-> MAGIC_ZIP \o Bytes("vbaProject.bin"), container |-> "ok",
     parsed |-> [pages |-> 1, text |-> Bytes("w"), images |-> 1, annotations |-> 0,
                 skipped |-> 0]]
\* a loadable PDF with two annotations, one of which does not parse
D_PDF_PARTIAL ==
    [bytes |-> Bytes("%PDF-1.4"), container |-> "ok",
     parsed |-> [pages |-> 1, text |-> Bytes("p"), images |-> 0, annotations |-> 1,
                 skipped |-> 1]]
\* a legacy compound-binary Office file
D_OLE == [bytes |-> MAGIC_OLE \o Bytes("x"), container |-> "ok", parsed |-> NoParse]
\* a workbook: a ZIP container that the Word reader refuses
D_WORKBOOK == [bytes |-> MAGIC_ZIP \o Bytes("xl/"), container |-> "corrupt", parsed |-> NoParse]

Rule(n, t, th, af, rq) ==
    [name |-> n, rule_type |-> t, threshold |-> th, allowed_formats |-> af, required |-> rq]

R_SIZE == Rule("size", "MaxFileSize", Some(3), None, None)
R_DOCX_ONLY == Rule("fmt", "AllowedFormats", None, Some({"Docx"}), None)
R_NOMACROS == Rule("macros", "NoMacros", None, None, None)
R_ENCRYPT == Rule("enc", "RequireEncryption", None, None, Some(TRUE))

\* a call of process_document(content, filename, password, validation_rules)
ProcessCall(doc, filename, password, rules) ==
    [op |-> "process_document", doc |-> doc, filename |-> filename,
     password |-> password, rules |-> rules, format |-> None]

\* a call of extract_text(content, format)
ExtractCall(doc, format) ==
    [op |-> "extract_text", doc |-> doc, filename |-> None,
     password |-> None, rules |-> <<>>, format |-> format]

\* a call of security_scan(content, format)
ScanCall(doc, format) ==
    [op |-> "security_scan", doc |-> doc, filename |-> None,
     password |-> None, rules |-> <<>>, format |-> format]

\* a call of validate_document(content, rules)
ValidateCall(doc, rules) ==
    [op |-> "validate_document", doc |-> doc, filename |-> None,
     password |-> None, rules |-> rules, format |-> None]

F_TXT == Bytes("a.txt")
F_UNKNOWN == Bytes("x.unknown")
F_XLSX == Bytes("b.XLSX")
F_WORKBOOK == Bytes("w.xlsx")
PW == Bytes("pw")

EngineCalls ==
    { ProcessCall(D_PDF_OK, None, Some(PW), <<R_DOCX_ONLY, R_SIZE>>),
      ProcessCall(D_PDF_BAD, Some(F_TXT), None, <<>>),
      ProcessCall(D_TEXT, None, None, <<R_NOMACROS>>),
      ProcessCall(D_BIN, None, None, <<R_SIZE>>),
      ProcessCall(D_BIN, Some(F_TXT), None, <<R_SIZE>>),
      ProcessCall(D_PNG, Some(F_UNKNOWN), None, <<>>),
      ProcessCall(D_ZIP, Some(F_XLSX), None, <<R_NOMACROS, R_ENCRYPT>>),
      ExtractCall(D_TEXT, None),
      ExtractCall(D_PDF_OK, Some("Pdf")),
      ExtractCall(D_PNG, None) }

\* calls on further documents: a partly readable PDF, a truncated PDF, a
\* legacy Office file, a workbook and an image whose text is asked for
LiveCalls ==
    { ProcessCall(D_PDF_PARTIAL, None, None, <<>>),
      ProcessCall(D_PDF_BAD, None, None, <<>>),
      ProcessCall(D_OLE, None, None, <<>>),
      ProcessCall(D_WORKBOOK, Some(F_WORKBOOK), None, <<>>),
      ExtractCall(D_PNG, None) }

\* the calls of the two operations that take no processor lock
ApiCalls ==
    { ScanCall(D_BIN, None),
      ScanCall(D_BIN, Some("Pdf")),
      ScanCall(D_TEXT, None),
      ScanCall(D_PDF_OK, None),
      ValidateCall(D_BIN, <<R_SIZE>>),
      ValidateCall(D_BIN, <<>>),
      ValidateCall(D_TEXT, <<R_NOMACROS>>),
      ValidateCall(D_PDF_OK, <<R_DOCX_ONLY, R_SIZE>>) }

(***************************************************************************)
(* State                                                                   *)
(***************************************************************************)
VARIABLES
    pc,         \* pc[r]: where request r stands in its call
    call,       \* call[r]: Some(arguments of the call in progress) or None
    detected,   \* detected[r]: Some(result of format detection) or None
    security,   \* security[r]: Some(security_analysis) or None
    validation, \* validation[r]: Some(validation_result) or None
    outcome,    \* outcome[r]: Some(value returned to the caller) or None
    steps,      \* steps[r]: the calls request r has made so far, in order
    lock,       \* lock[f]: the request holding processor f's write lock, 0 if free
    probe       \* a component used on its own: the format detector, the analyzer,
                \* the validation engine, the encoding detector, the
                \* foreign-function bridge or the engine on one document

engine_vars == <<pc, call, detected, security, validation, outcome, steps, lock>>
vars == <<pc, call, detected, security, validation, outcome, steps, lock, probe>>

ProbeIdle == [stage |-> "off", content |-> <<>>, filename |-> None,
              first |-> None, second |-> None]

\* DocumentProcessingEngine::new: four unlocked processors, no request
Init ==
    /\ pc = [r \in Requests |-> "idle"]
    /\ call = [r \in Requests |-> None]
    /\ detected = [r \in Requests |-> None]
    /\ security = [r \in Requests |-> None]
    /\ validation = [r \in Requests |-> None]
    /\ outcome = [r \in Requests |-> None]
    /\ steps = [r \in Requests |-> <<>>]
    /\ lock = [f \in Families |-> 0]
    /\ probe = ProbeIdle

Args(r) == Unwrap(call[r])
Format(r) == Unwrap(detected[r]).val

\* the processor family request r dispatches to
FamilyOf(r) ==
    IF Args(r).op = "process_document" THEN DispatchFamily(Format(r))
    ELSE ExtractFamily(Format(r))

(***************************************************************************)
(* Actions: one per await point of process_document / extract_text         *)
(***************************************************************************)
\* a task enters one of the four public operations
Call(r, c) ==
    /\ pc[r] = "idle"
    /\ call' = [call EXCEPT ![r] = Some(c)]
    /\ pc' = [pc EXCEPT ![r] = "detect"]
    /\ UNCHANGED <<detected, security, validation, outcome, steps, lock, probe>>

\* the results the detection step of a call can produce: process_document
\* always detects; extract_text and security_scan keep a given format and
\* else detect without a filename; validate_document detects without a
\* filename
DetectStep(c) ==
    IF c.op \in {"extract_text", "security_scan"}
    THEN IF IsSome(c.format) THEN {Ok(Unwrap(c.format))}
         ELSE detect_format(c.doc.bytes, None)
    ELSE IF c.op = "validate_document" THEN detect_format(c.doc.bytes, None)
    ELSE detect_format(c.doc.bytes, c.filename)

\* where a call goes after a successful detection
AfterDetect(c) ==
    CASE c.op \in {"process_document", "security_scan"} -> "security"
      [] c.op = "validate_document" -> "validate"
      [] c.op = "extract_text" -> "dispatch"

DetectFormat(r) ==
    /\ pc[r] = "detect"
    /\ \E res \in DetectStep(Args(r)) :
          /\ detected' = [detected EXCEPT ![r] = Some(res)]
          /\ IF res.ok
             THEN /\ pc' = [pc EXCEPT ![r] = AfterDetect(Args(r))]
                  /\ UNCHANGED outcome
             ELSE /\ pc' = [pc EXCEPT ![r] = "done"]
                  /\ outcome' = [outcome EXCEPT ![r] = Some(res)]
    /\ steps' = [steps EXCEPT ![r] = Append(@, "detect_format")]
    /\ UNCHANGED <<call, security, validation, lock, probe>>

\* the analysis is kept by process_document and returned by security_scan
AnalyzeContent(r) ==
    /\ pc[r] = "security"
    /\ LET a == analyze_content(Args(r).doc.bytes, Format(r))
       IN  /\ security' = [security EXCEPT ![r] = Some(a)]
           /\ IF Args(r).op = "security_scan"
              THEN /\ pc' = [pc EXCEPT ![r] = "done"]
                   /\ outcome' = [outcome EXCEPT ![r] = Some(Ok(a))]
              ELSE /\ pc' = [pc EXCEPT ![r] = "validate"]
                   /\ UNCHANGED outcome
    /\ steps' = [steps EXCEPT ![r] = Append(@, "analyze_content")]
    /\ UNCHANGED <<call, detected, validation, lock, probe>>

\* variant: the call fails fast when validation reports errors
ValidateDocumentFailFast(r) ==
    /\ pc[r] = "validate"
    /\ LET v == validate_document(Args(r).doc.bytes, Format(r), Args(r).rules)
       IN  /\ validation' = [validation EXCEPT ![r] = Some(v)]
           /\ IF v.is_valid
              THEN /\ pc' = [pc EXCEPT ![r] = "dispatch"]
                   /\ UNCHANGED outcome
              ELSE /\ pc' = [pc EXCEPT ![r] = "done"]
                   /\ outcome' = [outcome EXCEPT ![r] =
                                     Some(Err("InvalidDocument", "validation failed", <<>>))]
    /\ steps' = [steps EXCEPT ![r] = Append(@, "validate_document")]
    /\ UNCHANGED <<call, detected, security, lock, probe>>

\* the result is kept by process_document and returned by validate_document
ValidateDocument(r) ==
    /\ pc[r] = "validate"
    /\ LET v == validate_document(Args(r).doc.bytes, Format(r), Args(r).rules)
       IN  /\ validation' = [validation EXCEPT ![r] = Some(v)]
           /\ IF Args(r).op = "validate_document"
              THEN /\ pc' = [pc EXCEPT ![r] = "done"]
                   /\ outcome' = [outcome EXCEPT ![r] = Some(Ok(v))]
              ELSE /\ pc' = [pc EXCEPT ![r] = "dispatch"]
                   /\ UNCHANGED outcome
    /\ steps' = [steps EXCEPT ![r] = Append(@, "validate_document")]
    /\ UNCHANGED <<call, detected, security, lock, probe>>

\* variant: a shared (read) lock, granted while others hold it
AcquireLockShared(r) ==
    /\ pc[r] = "dispatch"
    /\ FamilyOf(r) \in Families
    /\ lock' = [lock EXCEPT ![FamilyOf(r)] = r]
    /\ pc' = [pc EXCEPT ![r] = "processing"]
    /\ steps' = [steps EXCEPT ![r] = Append(@, "write")]
    /\ UNCHANGED <<call, detected, security, validation, outcome, probe>>

\* variant: one lock for the whole engine
AcquireLockGlobal(r) ==
    /\ pc[r] = "dispatch"
    /\ FamilyOf(r) \in Families
    /\ \A f \in Families : lock[f] = 0
    /\ lock' = [lock EXCEPT ![FamilyOf(r)] = r]
    /\ pc' = [pc EXCEPT ![r] = "processing"]
    /\ steps' = [steps EXCEPT ![r] = Append(@, "write")]
    /\ UNCHANGED <<call, detected, security, validation, outcome, probe>>

\* processor.write().await: granted only while nobody holds the lock
AcquireLock(r) ==
    /\ pc[r] = "dispatch"
    /\ FamilyOf(r) \in Families
    /\ lock[FamilyOf(r)] = 0
    /\ lock' = [lock EXCEPT ![FamilyOf(r)] = r]
    /\ pc' = [pc EXCEPT ![r] = "processing"]
    /\ steps' = [steps EXCEPT ![r] = Append(@, "write")]
    /\ UNCHANGED <<call, detected, security, validation, outcome, probe>>

\* the wildcard arm of the dispatch match
UnsupportedError(c, format) ==
    Err("UnsupportedFormat",
        (IF c.op = "process_document" THEN "Unsupported format: "
         ELSE "Text extraction not supported for format: ") \o format, <<>>)

DispatchUnsupported(r) ==
    /\ pc[r] = "dispatch"
    /\ FamilyOf(r) = "Unsupported"
    /\ outcome' = [outcome EXCEPT ![r] = Some(UnsupportedError(Args(r), Format(r)))]
    /\ pc' = [pc EXCEPT ![r] = "done"]
    /\ UNCHANGED <<call, detected, security, validation, steps, lock, probe>>

\* what the call returns once the processor has returned res
Returned(c, format, sec, val, res, elapsed) ==
    IF ~res.ok THEN res
    ELSE IF c.op = "process_document"
    THEN Ok(ProcessedDocument(format, Unwrap(sec), Unwrap(val), res.val, c.filename, elapsed))
    ELSE Ok(res.val.text_content)

\* variant: the guard outlives an early return with an error
ReleasedByOkOnly(r, res) == IF res.ok THEN 0 ELSE r

\* variant: the guard is never dropped
ReleasedByLeaked(r, res) == r

\* the lock a request holds after its processor call has returned: the
\* write guard is dropped on the Ok path and on the Err path alike
ReleasedBy(r, res) == 0

\* the processor runs under the lock and returns; the guard is dropped
Process(r) ==
    /\ pc[r] = "processing"
    /\ LET c == Args(r)
           res == RunProcessor(FamilyOf(r), c.op, c.doc, Format(r), c.password)
       IN  /\ \E elapsed \in 0..MaxElapsedMs :
                 outcome' = [outcome EXCEPT ![r] =
                     Some(Returned(c, Format(r), security[r], validation[r], res, elapsed))]
           /\ lock' = [lock EXCEPT ![FamilyOf(r)] = ReleasedBy(r, res)]
    /\ pc' = [pc EXCEPT ![r] = "done"]
    /\ steps' = [steps EXCEPT ![r] = Append(@, "process_document")]
    /\ UNCHANGED <<call, detected, security, validation, probe>>

\* the caller takes the returned value; the task ends
Return(r) ==
    /\ pc[r] = "done"
    /\ pc' = [pc EXCEPT ![r] = "idle"]
    /\ call' = [call EXCEPT ![r] = None]
    /\ detected' = [detected EXCEPT ![r] = None]
    /\ security' = [security EXCEPT ![r] = None]
    /\ validation' = [validation EXCEPT ![r] = None]
    /\ outcome' = [outcome EXCEPT ![r] = None]
    /\ steps' = [steps EXCEPT ![r] = <<>>]
    /\ UNCHANGED <<lock, probe>>

Next ==
    \/ \E r \in Requests : \E c \in EngineCalls : Call(r, c)
    \/ \E r \in Requests : DetectFormat(r)
    \/ \E r \in Requests : AnalyzeContent(r)
    \/ \E r \in Requests : ValidateDocument(r)
    \/ \E r \in Requests : AcquireLock(r)
    \/ \E r \in Requests : DispatchUnsupported(r)
    \/ \E r \in Requests : Process(r)
    \/ \E r \in Requests : Return(r)

Spec == Init /\ [][Next]_vars

(***************************************************************************)
(* The engine under fair scheduling.  A task that can take a step of its   *)
(* call takes it (the runtime polls every ready task and the processors    *)
(* terminate); tokio's RwLock hands the write lock to its waiters in       *)
(* turn, so a task that keeps finding the lock free again gets it.         *)
(***************************************************************************)
\* the steps of request r that wait for nothing, but for the analysis
Step(r) ==
    \/ DetectFormat(r)
    \/ ValidateDocument(r)
    \/ DispatchUnsupported(r)
    \/ Process(r)

\* the analysis step of request r, by what it does to pc: it is enabled
\* exactly when AnalyzeContent(r) is, and a step of NextLive that changes
\* pc in this way is an AnalyzeContent(r) step.  Fairness is stated on it
\* so that ENABLED need not compute the analysis.
Analyzed(r) ==
    /\ pc[r] = "security"
    /\ pc' = [pc EXCEPT ![r] = IF Args(r).op = "security_scan" THEN "done" ELSE "validate"]

NextLive ==
    \/ \E r \in Requests : \E c \in LiveCalls : Call(r, c)
    \/ \E r \in Requests : DetectFormat(r)
    \/ \E r \in Requests : AnalyzeContent(r)
    \/ \E r \in Requests : ValidateDocument(r)
    \/ \E r \in Requests : AcquireLock(r)
    \/ \E r \in Requests : DispatchUnsupported(r)
    \/ \E r \in Requests : Process(r)
    \/ \E r \in Requests : Return(r)

Fairness ==
    \A r \in Requests :
        WF_vars(Step(r)) /\ WF_pc(Analyzed(r)) /\ SF_vars(AcquireLock(r))

SpecLive == Init /\ [][NextLive]_vars /\ Fairness

(***************************************************************************)
(* security_scan and validate_document: they read the detector, the        *)
(* analyzer and the validation engine, which nothing writes after          *)
(* construction, and take no processor lock, so requests running them      *)
(* meet nothing of the requests above.                                     *)
(***************************************************************************)
NextApi ==
    \/ \E r \in Requests : \E c \in ApiCalls : Call(r, c)
    \/ \E r \in Requests : DetectFormat(r)
    \/ \E r \in Requests : AnalyzeContent(r)
    \/ \E r \in Requests : ValidateDocument(r)
    \/ \E r \in Requests : Return(r)

SpecApi == Init /\ [][NextApi]_vars

(***************************************************************************)
(* The format detector on its own: detect_format called twice on the same  *)
(* (content, filename), as two calls on any engine instances would.        *)
(***************************************************************************)
\* longest content tail, in chunks
MaxChunks == 3

\* the pieces content tails are built from: the markers the sniffing tests
\* look for, a letter, a line feed and a byte that is not UTF-8
Chunks ==
    { T_HTML, CH_LBRACE, CH_RBRACE, CH_LT, CH_GT, T_YAML, <<LF>>, CH_COMMA, CH_HASH,
      Bytes("a"), <<255>> }

\* all concatenations of at most n chunks
RECURSIVE Tails(_)
Tails(n) ==
    IF n = 0 THEN {<<>>}
    ELSE Tails(n - 1) \cup {t \o c : t \in Tails(n - 1), c \in Chunks}

\* prefixes one byte off a magic entry
NearMagic ==
    { Bytes("%PDF"), Bytes("GIF88a"), Bytes("B"), Bytes("PK"), <<255, 216>>,
      <<137, 80, 78, 71>>, Bytes("RIF") }

MagicHeads == {e[1] : e \in magic_bytes}

HeadedContents == {h \o t : h \in MagicHeads \cup NearMagic, t \in Tails(1)}

ToUpper(s) == [i \in 1..Len(s) |-> IF s[i] >= 97 /\ s[i] <= 122 THEN s[i] - 32 ELSE s[i]]

FewFilenames ==
    { None, Some(Bytes("noext")), Some(F_UNKNOWN), Some(Bytes("x.PNG")), Some(F_TXT),
      Some(Bytes("d.d/f")), Some(Bytes("a.")), Some(Bytes(".hidden")) }

AllFilenames ==
    FewFilenames
    \cup {Some(Bytes("f.") \o x) : x \in KnownExtensions}
    \cup {Some(Bytes("F.") \o ToUpper(x)) : x \in KnownExtensions}

\* the (content, filename) pairs detection is probed with
DetectInputs ==
    ((Tails(MaxChunks) \cup HeadedContents) \X FewFilenames)
    \cup ((Tails(1) \cup HeadedContents) \X AllFilenames)

InitDetect ==
    /\ pc = [r \in Requests |-> "idle"]
    /\ call = [r \in Requests |-> None]
    /\ detected = [r \in Requests |-> None]
    /\ security = [r \in Requests |-> None]
    /\ validation = [r \in Requests |-> None]
    /\ outcome = [r \in Requests |-> None]
    /\ steps = [r \in Requests |-> <<>>]
    /\ lock = [f \in Families |-> 0]
    /\ \E in \in DetectInputs :
          probe = [stage |-> "input", content |-> in[1], filename |-> in[2],
                   first |-> None, second |-> None]

\* a first call of detect_format(content, filename)
ProbeDetect ==
    /\ probe.stage = "input"
    /\ \E res \in detect_format(probe.content, probe.filename) :
          probe' = [probe EXCEPT !.stage = "detected", !.first = Some(res)]
    /\ UNCHANGED engine_vars

\* a second call with the same arguments
ProbeAgain ==
    /\ probe.stage = "detected"
    /\ \E res \in detect_format(probe.content, probe.filename) :
          probe' = [probe EXCEPT !.stage = "again", !.second = Some(res)]
    /\ UNCHANGED engine_vars

NextDetect == ProbeDetect \/ ProbeAgain

SpecDetect == InitDetect /\ [][NextDetect]_vars

(***************************************************************************)
(* The security analyzer on its own: analyze_content on a content, then on *)
(* the same content with one more threat occurrence inserted between two   *)
(* of its pieces.                                                          *)
(***************************************************************************)
\* longest analysed content before the insertion, in pieces
MaxScanChunks == 2

\* one occurrence of a declared threat pattern each; the occurrences that
\* end in \s or run up to \s carry their white space
ThreatChunks ==
    { Bytes("<script"), Bytes("/EmbeddedFile"), Bytes("/OpenAction"), Bytes("/JS "),
      Bytes("http://e.io ") }

\* the pieces analysed contents are built from: the occurrences, a letter,
\* a byte that is not UTF-8, a link to a private host and three actions
ScanChunks ==
    ThreatChunks \cup { Bytes("a"), <<255>>, Bytes("http://10.0.0.1 "), Bytes("/JS /JS /JS ") }

ScanFormats == {"Pdf", "PlainText"}

\* all sequences of at most n pieces
RECURSIVE ScanParts(_)
ScanParts(n) ==
    IF n = 0 THEN {<<>>}
    ELSE ScanParts(n - 1) \cup {Append(p, c) : p \in ScanParts(n - 1), c \in ScanChunks}

RECURSIVE Flatten(_)
Flatten(parts) == IF parts = <<>> THEN <<>> ELSE Head(parts) \o Flatten(Tail(parts))

InsertAt(parts, i, c) == SubSeq(parts, 1, i) \o <<c>> \o SubSeq(parts, i + 1, Len(parts))

\* no request is in the engine
Quiescent ==
    /\ pc = [r \in Requests |-> "idle"]
    /\ call = [r \in Requests |-> None]
    /\ detected = [r \in Requests |-> None]
    /\ security = [r \in Requests |-> None]
    /\ validation = [r \in Requests |-> None]
    /\ outcome = [r \in Requests |-> None]
    /\ steps = [r \in Requests |-> <<>>]
    /\ lock = [f \in Families |-> 0]

InitScan ==
    /\ Quiescent
    /\ \E p \in ScanParts(MaxScanChunks), f \in ScanFormats :
          probe = [stage |-> "scan_input", parts |-> p, format |-> f, inserted |-> None,
                   first |-> None, second |-> None]

\* analyze_content(content, format)
ScanAnalyze ==
    /\ probe.stage = "scan_input"
    /\ probe' = [probe EXCEPT !.stage = "analysed",
                              !.first = Some(analyze_content(Flatten(probe.parts), probe.format))]
    /\ UNCHANGED engine_vars

\* one more occurrence of a threat pattern is put between two pieces
ScanInject ==
    /\ probe.stage = "analysed"
    /\ \E i \in 0..Len(probe.parts), c \in ThreatChunks :
          probe' = [probe EXCEPT !.stage = "injected",
                                 !.parts = InsertAt(probe.parts, i, c),
                                 !.inserted = Some(c)]
    /\ UNCHANGED engine_vars

\* analyze_content on the content with the insertion
ScanReanalyze ==
    /\ probe.stage = "injected"
    /\ probe' = [probe EXCEPT !.stage = "reanalysed",
                              !.second = Some(analyze_content(Flatten(probe.parts), probe.format))]
    /\ UNCHANGED engine_vars

NextScan == ScanAnalyze \/ ScanInject \/ ScanReanalyze

SpecScan == InitScan /\ [][NextScan]_vars

(***************************************************************************)
(* The validation engine on its own: validate_document on a content, a     *)
(* format and a rule list.                                                 *)
(***************************************************************************)
\* longest rule list
MaxRules == 2

R_SIZE10 == Rule("size10", "MaxFileSize", Some(10), None, None)
R_SIZE_DEFAULT == Rule("sizedef", "MaxFileSize", None, None, None)
R_ANY_FORMAT == Rule("anyfmt", "AllowedFormats", None, None, None)
R_ENCRYPT_UNSET == Rule("encunset", "RequireEncryption", None, None, None)

ValidateRules ==
    { R_SIZE10, R_SIZE_DEFAULT, R_DOCX_ONLY, R_ANY_FORMAT, R_NOMACROS, R_ENCRYPT,
      R_ENCRYPT_UNSET }

\* all rule lists of at most n rules
RECURSIVE RuleLists(_)
RuleLists(n) ==
    IF n = 0 THEN {<<>>}
    ELSE RuleLists(n - 1) \cup {Append(l, r) : l \in RuleLists(n - 1), r \in ValidateRules}

\* contents of 9, 10 and 11 bytes and one with a macro project, under the
\* formats a filename can give them; an encrypted PDF
ValidateInputs ==
    ({ Bytes("123456789"), Bytes("1234567890"), Bytes("12345678901"), S_VBA }
        \X {"Pdf", "Docx", "PlainText"})
    \cup {<<MAGIC_PDF \o S_ENCRYPT, "Pdf">>}

InitValidate ==
    /\ Quiescent
    /\ \E in \in ValidateInputs, l \in RuleLists(MaxRules) :
          probe = [stage |-> "validate_input", content |-> in[1], format |-> in[2],
                   rules |-> l, result |-> None]

\* validate_document(content, format, rules) of the validation engine
ProbeValidate ==
    /\ probe.stage = "validate_input"
    /\ probe' = [probe EXCEPT !.stage = "validated",
                              !.result = Some(Ok(validate_document(probe.content, probe.format,
                                                                   probe.rules)))]
    /\ UNCHANGED engine_vars

NextValidate == ProbeValidate

SpecValidate == InitValidate /\ [][NextValidate]_vars

(***************************************************************************)
(* The encoding detector of the text processor on its own.                 *)
(***************************************************************************)
BOM_UTF8 == <<239, 187, 191>>
BOM_UTF16LE == <<255, 254>>
BOM_UTF16BE == <<254, 255>>

\* an EncodingInfo; confidence in hundredths
EncodingInfo(encoding, confidence, has_bom) ==
    [encoding |-> encoding, confidence |-> confidence, has_bom |-> has_bom]

\* variant: the ASCII test comes before the UTF-8 test
detect_encoding_AsciiFirst(content) ==
    IF Len(content) >= 3 /\ SubSeq(content, 1, 3) = BOM_UTF8
    THEN Ok(EncodingInfo("UTF-8", 100, TRUE))
    ELSE IF Len(content) >= 2 /\ SubSeq(content, 1, 2) = BOM_UTF16LE
    THEN Ok(EncodingInfo("UTF-16LE", 100, TRUE))
    ELSE IF Len(content) >= 2 /\ SubSeq(content, 1, 2) = BOM_UTF16BE
    THEN Ok(EncodingInfo("UTF-16BE", 100, TRUE))
    ELSE IF \A i \in 1..Len(content) : content[i] < 128
    THEN Ok(EncodingInfo("ASCII", 95, FALSE))
    ELSE IF IsUtf8(content)
    THEN Ok(EncodingInfo("UTF-8", 90, FALSE))
    ELSE Ok(EncodingInfo("UTF-8", 50, FALSE))

\* EncodingDetector::detect_encoding; every path returns Ok
detect_encoding(content) ==
    IF Len(content) >= 3 /\ SubSeq(content, 1, 3) = BOM_UTF8
    THEN Ok(EncodingInfo("UTF-8", 100, TRUE))
    ELSE IF Len(content) >= 2 /\ SubSeq(content, 1, 2) = BOM_UTF16LE
    THEN Ok(EncodingInfo("UTF-16LE", 100, TRUE))
    ELSE IF Len(content) >= 2 /\ SubSeq(content, 1, 2) = BOM_UTF16BE
    THEN Ok(EncodingInfo("UTF-16BE", 100, TRUE))
    ELSE IF IsUtf8(content)
    THEN Ok(EncodingInfo("UTF-8", 90, FALSE))
    ELSE IF \A i \in 1..Len(content) : content[i] < 128
    THEN Ok(EncodingInfo("ASCII", 95, FALSE))
    ELSE Ok(EncodingInfo("UTF-8", 50, FALSE))

\* longest content the detector is probed with, in bytes
MaxEncodingBytes == 3

\* the bytes of the three marks, a letter, the two bytes of a two-byte
\* character and a lone continuation byte
EncodingBytes == {239, 187, 191, 255, 254, 65, 195, 169, 128}

\* all contents of at most n of these bytes
RECURSIVE EncodingInputs(_)
EncodingInputs(n) ==
    IF n = 0 THEN {<<>>}
    ELSE EncodingInputs(n - 1)
         \cup {Append(c, b) : c \in EncodingInputs(n - 1), b \in EncodingBytes}

InitEncoding ==
    /\ Quiescent
    /\ \E c \in EncodingInputs(MaxEncodingBytes) :
          probe = [stage |-> "encoding_input", content |-> c, result |-> None]

\* detect_encoding(content)
ProbeEncoding ==
    /\ probe.stage = "encoding_input"
    /\ probe' = [probe EXCEPT !.stage = "encoded", !.result = Some(detect_encoding(probe.content))]
    /\ UNCHANGED engine_vars

NextEncoding == ProbeEncoding

SpecEncoding == InitEncoding /\ [][NextEncoding]_vars

(***************************************************************************)
(* The foreign-function bridge (ffi.rs).  Here probe holds the two         *)
(* statics ENGINE and DOCUMENTS, the call in progress on each thread, and  *)
(* the handles the callers have been given:                                *)
(*   documents : DOCUMENTS, a document being the number of the open that   *)
(*               created it                                                *)
(*   th[t]     : [pc, doc, len, handle, result, live] of thread t          *)
(*   issued    : [handle, doc, live] for every handle returned by          *)
(*               filefire_open_file; live is cleared by cleanup and by a   *)
(*               close_document that accepted the handle                   *)
(* The statics are static mut with no synchronisation, so the steps of     *)
(* calls on different threads interleave: Vec::push reads the length,      *)
(* writes the slot and stores the new length, and the handle is formed by  *)
(* a later read of the length.                                             *)
(***************************************************************************)
NumThreads == 2
MaxOpened == 3
Threads == 1..NumThreads

\* the paths a caller passes: a null pointer, a file that cannot be read,
\* a file that can
FfiPaths == {"null", "missing", "readable"}

ThreadIdle == [pc |-> "idle", doc |-> 0, len |-> 0, handle |-> 0, result |-> 0, live |-> FALSE]

InitFfi ==
    /\ Quiescent
    /\ probe = [stage |-> "ffi", engine |-> FALSE, documents |-> <<>>, opened |-> 0,
                th |-> [t \in Threads |-> ThreadIdle], issued |-> {}]

\* filefire_init
filefire_init(t) ==
    /\ probe.th[t].pc = "idle"
    /\ ~probe.engine
    /\ probe' = [probe EXCEPT !.engine = TRUE]
    /\ UNCHANGED engine_vars

\* filefire_open_file up to the result of engine.open_file
OpenFile(t, path) ==
    /\ probe.th[t].pc = "idle"
    /\ CASE path = "null" ->
              probe' = [probe EXCEPT !.th[t] = [ThreadIdle EXCEPT !.pc = "opened"]]
         [] path = "missing" ->
              probe' = [probe EXCEPT !.engine = TRUE,
                                     !.th[t] = [ThreadIdle EXCEPT !.pc = "opened"]]
         [] path = "readable" ->
              /\ probe.opened < MaxOpened
              /\ probe' = [probe EXCEPT !.engine = TRUE,
                                        !.opened = @ + 1,
                                        !.th[t] = [ThreadIdle EXCEPT !.pc = "push",
                                                                     !.doc = probe.opened + 1]]
    /\ UNCHANGED engine_vars

\* DOCUMENTS.push(doc): the length is read
PushLoad(t) ==
    /\ probe.th[t].pc = "push"
    /\ probe' = [probe EXCEPT !.th[t].pc = "store", !.th[t].len = Len(probe.documents)]
    /\ UNCHANGED engine_vars

\* DOCUMENTS after the slot at the length read has been written and the
\* length stored
Pushed(documents, len, doc) ==
    SubSeq(documents, 1, len) \o <<doc>>

\* DOCUMENTS.push(doc): the slot is written and the new length stored
PushStore(t) ==
    /\ probe.th[t].pc = "store"
    /\ probe' = [probe EXCEPT !.th[t].pc = "len",
                              !.documents = Pushed(@, probe.th[t].len, probe.th[t].doc)]
    /\ UNCHANGED engine_vars

\* CDocument { handle: DOCUMENTS.len() }
ReadLen(t) ==
    /\ probe.th[t].pc = "len"
    /\ LET handle == Len(probe.documents)
       IN  probe' = [probe EXCEPT !.th[t].pc = "opened",
                                  !.th[t].handle = handle,
                                  !.th[t].live = TRUE,
                                  !.issued = @ \cup {[handle |-> handle,
                                                      doc |-> probe.th[t].doc,
                                                      live |-> TRUE]}]
    /\ UNCHANGED engine_vars

\* the test at the head of filefire_get_metadata, filefire_annotate,
\* filefire_save and filefire_close_document
HandleAccepted(documents, i) ==
    ~(i.handle = 0 \/ i.handle > Len(documents))

\* filefire_get_metadata, filefire_annotate, filefire_save: the document
\* the handle of i resolves to, 0 when the handle is refused
Resolve(t, i) ==
    /\ probe.th[t].pc = "idle"
    /\ probe' = [probe EXCEPT !.th[t] =
                    [pc |-> "resolved", doc |-> i.doc, len |-> 0, handle |-> i.handle,
                     result |-> IF HandleAccepted(probe.documents, i)
                                THEN probe.documents[i.handle] ELSE 0,
                     live |-> i.live]]
    /\ UNCHANGED engine_vars

\* filefire_close_document: 0 for a handle that passes the test, -1
\* otherwise; the table is left as it is
filefire_close_document(t, i) ==
    /\ probe.th[t].pc = "idle"
    /\ LET accepted == HandleAccepted(probe.documents, i)
       IN  probe' = [probe EXCEPT !.th[t] = [ThreadIdle EXCEPT !.pc = "closed",
                                                               !.handle = i.handle,
                                                               !.result = IF accepted THEN 0 ELSE -1],
                                  !.issued = IF accepted
                                             THEN (@ \ {i}) \cup {[i EXCEPT !.live = FALSE]}
                                             ELSE @]
    /\ UNCHANGED engine_vars

\* filefire_cleanup, while no push is between its read and its write
filefire_cleanup(t) ==
    /\ probe.th[t].pc = "idle"
    /\ \A u \in Threads : probe.th[u].pc # "store"
    /\ probe.documents # <<>> \/ probe.engine
    /\ probe' = [probe EXCEPT !.engine = FALSE,
                              !.documents = <<>>,
                              !.issued = {[i EXCEPT !.live = FALSE] : i \in @}]
    /\ UNCHANGED engine_vars

\* the call returns to its caller
ReturnFfi(t) ==
    /\ probe.th[t].pc \in {"opened", "resolved", "closed"}
    /\ probe' = [probe EXCEPT !.th[t] = ThreadIdle]
    /\ UNCHANGED engine_vars

NextFfi ==
    \/ \E t \in Threads : filefire_init(t)
    \/ \E t \in Threads : \E path \in FfiPaths : OpenFile(t, path)
    \/ \E t \in Threads : PushLoad(t)
    \/ \E t \in Threads : PushStore(t)
    \/ \E t \in Threads : ReadLen(t)
    \/ \E t \in Threads : \E i \in probe.issued : Resolve(t, i)
    \/ \E t \in Threads : \E i \in probe.issued : filefire_close_document(t, i)
    \/ \E t \in Threads : filefire_cleanup(t)
    \/ \E t \in Threads : ReturnFfi(t)

SpecFfi == InitFfi /\ [][NextFfi]_vars

(***************************************************************************)
(* FilefireEngine on one Document (engine.rs, document.rs, plugin.rs).     *)
(* Here probe holds                                                        *)
(*   plugins  : the plugins of the registry, a plugin being                *)
(*              [name, capabilities, behaviour] where behaviour says what  *)
(*              its process returns: output with success, output without   *)
(*              success, or an error                                       *)
(*   document : [content, format, annotations, is_modified]                *)
(*   last     : the last call, [op, before, ret], before being the         *)
(*              document as the call found it                              *)
(***************************************************************************)
MaxAnnotations == 2

\* uuid::Uuid::to_string of engine.rs: the hexadecimal form of the hash a
\* fresh DefaultHasher gives for no input, the same at every call
Uuid_to_string == Bytes("d1fba762150c532c")

Annotation(id, page, content) == [id |-> id, page |-> page, content |-> content]

\* Document::new
Document_new(content, format) ==
    [content |-> content, format |-> format, annotations |-> <<>>, is_modified |-> FALSE]

\* Document::add_annotation
add_annotation(document, annotation) ==
    [document EXCEPT !.annotations = Append(@, annotation), !.is_modified = TRUE]

\* FilefireEngine::annotate: the id returned and the document afterwards
annotate(document, page, content) ==
    LET annotation_id == Bytes("ann_") \o Uuid_to_string
    IN  [ret |-> Ok(annotation_id),
         document |-> add_annotation(document, Annotation(annotation_id, page, content))]

\* Vec::retain
RECURSIVE Retain(_, _)
Retain(annotations, annotation_id) ==
    IF annotations = <<>> THEN <<>>
    ELSE (IF annotations[1].id # annotation_id THEN <<annotations[1]>> ELSE <<>>)
         \o Retain(Tail(annotations), annotation_id)

\* Document::remove_annotation: the flag returned and the document afterwards
remove_annotation(document, annotation_id) ==
    LET kept == Retain(document.annotations, annotation_id)
        removed == Len(kept) # Len(document.annotations)
    IN  [ret |-> removed,
         document |-> [document EXCEPT !.annotations = kept,
                                       !.is_modified = IF removed THEN TRUE ELSE @]]

\* the plugins of the samples
PL_STAMP == [name |-> "stamp", capabilities |-> {"Watermark"}, behaviour |-> "success"]
PL_FAINT == [name |-> "faint", capabilities |-> {"Watermark"}, behaviour |-> "no_success"]
PL_BROKEN == [name |-> "broken", capabilities |-> {"Watermark", "Ocr"}, behaviour |-> "error"]
PL_CONVERT == [name |-> "convert", capabilities |-> {"FileConversion", "Ocr"}, behaviour |-> "success"]
PL_DUMMY == [name |-> "dummy", capabilities |-> {"Custom(dummy)"}, behaviour |-> "success"]
SamplePlugins == {PL_STAMP, PL_FAINT, PL_BROKEN, PL_CONVERT, PL_DUMMY}

\* what a sample plugin writes
PLUGIN_DATA == Bytes("W")

\* PluginRegistry::register_plugin
register_plugin(plugins, plugin) ==
    {q \in plugins : q.name # plugin.name} \cup {plugin}

\* PluginRegistry::unload_plugin
unload_plugin(plugins, name) == {q \in plugins : q.name # name}

\* PluginRegistry::supports_capability: the names of the plugins declaring
\* the capability (in the order of the hash map, which is any order)
supports_capability(plugins, capability) ==
    {q.name : q \in {p \in plugins : capability \in p.capabilities}}

\* PluginRegistry::get_plugin
get_plugin(plugins, name) ==
    IF \E q \in plugins : q.name = name
    THEN Some(CHOOSE q \in plugins : q.name = name)
    ELSE None

\* Plugin::process of the sample plugins, as the data of the output or the
\* error the engine makes of it
process(plugin, failed) ==
    CASE plugin.behaviour = "success" -> Ok(PLUGIN_DATA)
      [] plugin.behaviour = "no_success" -> Err("Plugin", failed, <<>>)
      [] plugin.behaviour = "error" -> Err("Io", "plugin failed", <<>>)

\* the common part of convert, ocr and watermark: the plugin is looked up,
\* called and its output checked; the first name of the list is any of them
RunPlugin(plugins, capability, none, not_found, failed) ==
    IF supports_capability(plugins, capability) = {}
    THEN {Err("Plugin", none, <<>>)}
    ELSE {IF IsSome(get_plugin(plugins, plugin_name))
          THEN process(Unwrap(get_plugin(plugins, plugin_name)), failed)
          ELSE Err("Plugin", not_found, <<>>) :
             plugin_name \in supports_capability(plugins, capability)}

\* FilefireEngine::convert
convert(plugins, document, target_format) ==
    {IF r.ok THEN Ok(Document_new(r.val, target_format)) ELSE r :
        r \in RunPlugin(plugins, "FileConversion", "No conversion plugins available",
                        "Plugin not found", "Conversion failed")}

\* FilefireEngine::ocr
ocr(plugins, document) ==
    {IF ~r.ok THEN r
     ELSE IF IsUtf8(r.val) THEN r ELSE Err("Plugin", "Invalid OCR output", <<>>) :
        r \in RunPlugin(plugins, "Ocr", "No OCR plugins available",
                        "OCR plugin not found", "OCR failed")}

\* variant: the content is replaced before the output is checked
watermark_WriteFirst(plugins, document) ==
    {[ret |-> IF r.ok THEN Ok(<<>>) ELSE r,
      document |-> [document EXCEPT !.content = PLUGIN_DATA,
                                    !.is_modified = IF r.ok THEN TRUE ELSE @]] :
        r \in RunPlugin(plugins, "Watermark", "No watermark plugins available",
                        "Watermark plugin not found", "Watermarking failed")}

\* FilefireEngine::watermark: what is returned and the document afterwards
watermark(plugins, document) ==
    {IF r.ok
     THEN [ret |-> Ok(<<>>),
           document |-> [document EXCEPT !.content = r.val, !.is_modified = TRUE]]
     ELSE [ret |-> r, document |-> document] :
        r \in RunPlugin(plugins, "Watermark", "No watermark plugins available",
                        "Watermark plugin not found", "Watermarking failed")}

DocumentPages == {1, 2}
NOTE == Bytes("n")
ID_ABSENT == Bytes("ann_0")

LastCall(op, before, ret) == [op |-> op, before |-> before, ret |-> ret]

\* FilefireEngine::new and open_bytes
InitDocument ==
    /\ Quiescent
    /\ LET document == Document_new(Bytes("d"), "Pdf")
       IN  probe = [stage |-> "document", plugins |-> {}, document |-> document,
                    last |-> LastCall("open_bytes", document, Ok(<<>>))]

RegisterPlugin(plugin) ==
    /\ plugin \notin probe.plugins
    /\ probe' = [probe EXCEPT !.plugins = register_plugin(@, plugin),
                              !.last = LastCall("register_plugin", probe.document, Ok(<<>>))]
    /\ UNCHANGED engine_vars

UnloadPlugin(name) ==
    /\ \E q \in probe.plugins : q.name = name
    /\ probe' = [probe EXCEPT !.plugins = unload_plugin(@, name),
                              !.last = LastCall("unload_plugin", probe.document, Ok(<<>>))]
    /\ UNCHANGED engine_vars

Annotate(page) ==
    /\ Len(probe.document.annotations) < MaxAnnotations
    /\ LET a == annotate(probe.document, page, NOTE)
       IN  probe' = [probe EXCEPT !.document = a.document,
                                  !.last = LastCall("annotate", probe.document, a.ret)]
    /\ UNCHANGED engine_vars

RemoveAnnotation(annotation_id) ==
    /\ LET a == remove_annotation(probe.document, annotation_id)
       IN  probe' = [probe EXCEPT !.document = a.document,
                                  !.last = LastCall("remove_annotation", probe.document,
                                                    Ok(IF a.ret THEN annotation_id ELSE <<>>))]
    /\ UNCHANGED engine_vars

Convert(target_format) ==
    /\ \E r \in convert(probe.plugins, probe.document, target_format) :
          probe' = [probe EXCEPT !.last = LastCall("convert", probe.document, r)]
    /\ UNCHANGED engine_vars

Ocr ==
    /\ \E r \in ocr(probe.plugins, probe.document) :
          probe' = [probe EXCEPT !.last = LastCall("ocr", probe.document, r)]
    /\ UNCHANGED engine_vars

Watermark ==
    /\ \E w \in watermark(probe.plugins, probe.document) :
          probe' = [probe EXCEPT !.document = w.document,
                                 !.last = LastCall("watermark", probe.document, w.ret)]
    /\ UNCHANGED engine_vars

NextDocument ==
    \/ \E plugin \in SamplePlugins : RegisterPlugin(plugin)
    \/ \E plugin \in SamplePlugins : UnloadPlugin(plugin.name)
    \/ \E page \in DocumentPages : Annotate(page)
    \/ \E annotation_id \in {Bytes("ann_") \o Uuid_to_string, ID_ABSENT} :
          RemoveAnnotation(annotation_id)
    \/ Convert("Docx")
    \/ Ocr
    \/ Watermark

SpecDocument == InitDocument /\ [][NextDocument]_vars

(***************************************************************************)
(* Properties of the engine (checked under Spec)                           *)
(***************************************************************************)
IsProcess(r) == IsSome(call[r]) /\ Args(r).op = "process_document"
Done(r) == pc[r] = "done"
Result(r) == Unwrap(outcome[r])

IsPrefix(s, t) == Len(s) <= Len(t) /\ SubSeq(t, 1, Len(s)) = s

PipelineOrder ==
    <<"detect_format", "analyze_content", "validate_document", "write", "process_document">>

\* C1: process_document calls detection, security analysis, validation and
\* the format processor in that order; once detection has succeeded the
\* processor is always reached, whatever the validation result and the risk
\* level are, and both are returned as computed; a call that ends before
\* the dispatch failed at detection and ran nothing else and took no lock.
C1_PipelineOrder ==
    \A r \in Requests : IsProcess(r) =>
        /\ IsPrefix(steps[r], PipelineOrder)
        /\ IsSome(security[r]) <=> Len(steps[r]) >= 2
        /\ IsSome(validation[r]) <=> Len(steps[r]) >= 3
        /\ (Done(r) /\ Unwrap(detected[r]).ok) => steps[r] = PipelineOrder
        /\ (Done(r) /\ Result(r).ok) =>
              /\ Result(r).val.security_analysis = Unwrap(security[r])
              /\ Result(r).val.validation_result = Unwrap(validation[r])
        /\ (Done(r) /\ steps[r] # PipelineOrder) =>
              /\ ~Unwrap(detected[r]).ok
              /\ steps[r] = <<"detect_format">>
              /\ security[r] = None /\ validation[r] = None
              /\ outcome[r] = detected[r]
        /\ (IsSome(detected[r]) /\ ~Unwrap(detected[r]).ok) => \A f \in Families : lock[f] # r

\* a document with two validation errors and risk level Critical has been
\* processed and returned
C1_Witness ==
    \E r \in Requests :
        /\ IsProcess(r) /\ Done(r) /\ Result(r).ok
        /\ ~Result(r).val.validation_result.is_valid
        /\ Len(Result(r).val.validation_result.errors) = 2
        /\ Result(r).val.security_analysis.risk_level = "Critical"
        /\ steps[r] = PipelineOrder

\* the processor family the claim assigns to a format
ClaimedFamily(format) ==
    IF format \in PdfFamily THEN "Pdf"
    ELSE IF format \in OfficeFamily THEN "Office"
    ELSE IF format \in ImageFamily THEN "Image"
    ELSE IF format \in TextFamily THEN "Text"
    ELSE "Unsupported"

\* C2: process_document dispatches by format family, hands the caller's
\* password to the PDF processor, returns the result variant of the family
\* of the format, and never takes the unsupported-format arm: every format
\* of the magic table, of the extension table and of content sniffing
\* belongs to one of the four families.
C2_DispatchByFamily ==
    /\ \A e \in magic_bytes \cup ExtensionTable : DispatchFamily(e[2]) \in Families
    /\ \A f \in SniffedFormats : DispatchFamily(f) = "Text"
    /\ \A r \in Requests : IsProcess(r) =>
          /\ pc[r] \in {"dispatch", "processing"} =>
                /\ DispatchFamily(Format(r)) \in Families
                /\ DispatchFamily(Format(r)) = ClaimedFamily(Format(r))
          /\ pc[r] = "processing" => lock[ClaimedFamily(Format(r))] = r
          /\ (Done(r) /\ Result(r).ok) =>
                /\ Result(r).val.processing_result.variant = ClaimedFamily(Result(r).val.format)
                /\ Result(r).val.format = Format(r)
                /\ Result(r).val.format \in PdfFamily =>
                      Result(r).val.processing_result.password = Args(r).password
          /\ (Done(r) /\ ~Result(r).ok) => Result(r).err # "UnsupportedFormat"
                                           \/ Result(r) = Unwrap(detected[r])

\* a PDF has been processed by the PDF processor with the caller's password
C2_Witness ==
    \E r \in Requests :
        /\ IsProcess(r) /\ Done(r) /\ Result(r).ok
        /\ Result(r).val.format = "Pdf"
        /\ Result(r).val.processing_result.variant = "Pdf"
        /\ Result(r).val.processing_result.password = Some(PW)

\* the requests that are inside the processor of family f
Inside(f) == {r \in Requests : pc[r] = "processing" /\ FamilyOf(r) = f}

\* C3: at most one request is inside each processor, and it holds that
\* processor's write lock; another request for the family waits.
C3_MutualExclusion ==
    \A f \in Families :
        /\ Cardinality(Inside(f)) <= 1
        /\ \A r \in Inside(f) : lock[f] = r

\* one request is inside the PDF processor while another waits for it
C3_Witness ==
    \E r1, r2 \in Requests :
        /\ r1 # r2
        /\ pc[r1] = "processing" /\ FamilyOf(r1) = "Pdf"
        /\ pc[r2] = "dispatch" /\ FamilyOf(r2) = "Pdf"
        /\ ~ENABLED AcquireLock(r2)

\* C4: a request holds no lock before it is inside a processor, holds only
\* the lock of its own family, and a request waiting for a processor whose
\* lock is free can take it whatever other locks are held.
C4_FamiliesIndependent ==
    /\ \A f \in Families : lock[f] # 0 =>
          /\ pc[lock[f]] = "processing"
          /\ FamilyOf(lock[f]) = f
    /\ \A r \in Requests :
          (pc[r] = "dispatch" /\ FamilyOf(r) \in Families /\ lock[FamilyOf(r)] = 0)
              => ENABLED AcquireLock(r)

\* two requests are inside two different processors at once
C4_Witness ==
    \E r1, r2 \in Requests :
        /\ pc[r1] = "processing" /\ FamilyOf(r1) = "Pdf" /\ lock["Pdf"] = r1
        /\ pc[r2] = "processing" /\ FamilyOf(r2) = "Text" /\ lock["Text"] = r2

\* the request has run process_document on PDF-magic content whose
\* container does not load
PdfLoadFailed(r) ==
    /\ IsProcess(r) /\ Done(r)
    /\ StartsWith(Args(r).doc.bytes, MAGIC_PDF)
    /\ Args(r).doc.container # "ok"

\* C5: a PDF whose container cannot be loaded makes process_document return
\* an error and no document; the PDF lock is released; locks are held only
\* by requests inside a processor, so the engine is as constructed once the
\* requests have returned.
C5_ContainerFailureIsolated ==
    /\ \A r \in Requests : PdfLoadFailed(r) =>
          /\ ~Result(r).ok
          /\ Result(r).err = "Pdf"
          /\ lock["Pdf"] # r
    /\ \A f \in Families : lock[f] # 0 => pc[lock[f]] = "processing"
    /\ (\A r \in Requests : pc[r] \in {"idle", "done"}) => lock = [f \in Families |-> 0]

\* a truncated PDF has been refused by the PDF processor
C5_Witness ==
    \E r \in Requests :
        /\ PdfLoadFailed(r)
        /\ steps[r] = PipelineOrder
        /\ Result(r).err = "Pdf"
        /\ lock["Pdf"] = 0

\* what C10 compares of a returned value
Comparable(res) ==
    IF res.ok
    THEN [ok |-> TRUE, err |-> "", msg |-> "", detail |-> <<>>,
          format |-> res.val.format,
          risk_level |-> res.val.security_analysis.risk_level,
          security_score |-> res.val.security_analysis.security_score,
          errors |-> res.val.validation_result.errors]
    ELSE [ok |-> FALSE, err |-> res.err, msg |-> res.msg, detail |-> res.detail,
          format |-> "", risk_level |-> "", security_score |-> 0, errors |-> <<>>]

\* C10: two runs of process_document on equal arguments, one after the other
\* or interleaved, agree on the detected format, the risk level, the score
\* and the validation error messages (or on the error).
C10_Idempotent ==
    \A r1, r2 \in Requests :
        (IsProcess(r1) /\ IsProcess(r2) /\ call[r1] = call[r2]) =>
            /\ (IsSome(detected[r1]) /\ IsSome(detected[r2])) => detected[r1] = detected[r2]
            /\ (IsSome(security[r1]) /\ IsSome(security[r2])) => security[r1] = security[r2]
            /\ (Done(r1) /\ Done(r2)) => Comparable(Result(r1)) = Comparable(Result(r2))

\* two runs on equal arguments have returned documents that differ in the
\* processing time only
C10_Witness ==
    \E r1, r2 \in Requests :
        /\ r1 # r2
        /\ IsProcess(r1) /\ IsProcess(r2) /\ call[r1] = call[r2]
        /\ Done(r1) /\ Done(r2) /\ Result(r1).ok /\ Result(r2).ok
        /\ Result(r1) # Result(r2)
        /\ Comparable(Result(r1)) = Comparable(Result(r2))

(***************************************************************************)
(* Properties of the format detector (checked under SpecDetect)            *)
(***************************************************************************)
ProbeFilenameExtension ==
    IF IsSome(probe.filename) THEN Extension(Unwrap(probe.filename)) ELSE None

\* the results the probe has obtained so far
ProbeResults ==
    (IF IsSome(probe.first) THEN {Unwrap(probe.first)} ELSE {})
    \cup (IF IsSome(probe.second) THEN {Unwrap(probe.second)} ELSE {})

\* C6: content whose leading bytes equal a magic-table entry is detected as
\* that entry's format whatever the filename is (absent, a conflicting
\* extension, an unknown extension); no error is raised.
C6_MagicPriority ==
    \A e \in magic_bytes :
        StartsWith(probe.content, e[1]) => \A res \in ProbeResults : res = Ok(e[2])

\* PNG bytes with filename x.unknown have been detected as Png
C6_Witness ==
    /\ probe.stage = "detected"
    /\ StartsWith(probe.content, MAGIC_PNG)
    /\ probe.filename = Some(F_UNKNOWN)
    /\ probe.first = Some(Ok("Png"))

\* C7: with no magic match and a filename that has an extension, the result
\* is the extension table's entry for the lower-cased extension, whatever the
\* content is, and an UnsupportedFormat error carrying the extension as
\* written when the table has no entry; the content is not sniffed.
C7_ExtensionDecides ==
    (MagicMatches(probe.content) = {} /\ IsSome(ProbeFilenameExtension)) =>
        LET ext == Unwrap(ProbeFilenameExtension)
        IN  \A res \in ProbeResults :
                /\ \A e \in ExtensionTable : ToLower(ext) = e[1] => res = Ok(e[2])
                /\ (\A e \in ExtensionTable : ToLower(ext) # e[1]) =>
                       /\ ~res.ok
                       /\ res.err = "UnsupportedFormat"
                       /\ res.msg = "Unknown extension: "
                       /\ res.detail = ext

\* content that is not UTF-8, named F.PDF, has been detected as Pdf
C7_Witness ==
    /\ probe.stage = "detected"
    /\ probe.content = <<255>>
    /\ probe.filename = Some(Bytes("F.PDF"))
    /\ probe.first = Some(Ok("Pdf"))

\* C8: with no magic match and no filename extension, detection fails with
\* UnsupportedFormat exactly when the content is not valid UTF-8; valid
\* UTF-8 content, the empty content included, yields a text-family format.
C8_SniffOrFail ==
    (MagicMatches(probe.content) = {} /\ ~IsSome(ProbeFilenameExtension)) =>
        \A res \in ProbeResults :
            /\ res.ok <=> IsUtf8(probe.content)
            /\ res.ok => res.val \in SniffedFormats /\ res.val \in TextFamily
            /\ ~res.ok => res.err = "UnsupportedFormat"
            /\ probe.content = <<>> => res.ok

\* content that is not UTF-8, with a filename that has no extension, has
\* been refused
C8_Witness ==
    /\ probe.stage = "detected"
    /\ ~IsUtf8(probe.content)
    /\ MagicMatches(probe.content) = {}
    /\ probe.filename = Some(Bytes("noext"))
    /\ ~Unwrap(probe.first).ok

\* C9: two calls of detect_format with equal arguments return the same
\* value, and no content matches two magic entries of different formats.
C9_DetectDeterministic ==
    /\ probe.stage = "again" => probe.first = probe.second
    /\ \A e1, e2 \in MagicMatches(probe.content) : e1[2] = e2[2]

\* GIF89a content has been detected twice, as Gif both times
C9_Witness ==
    /\ probe.stage = "again"
    /\ StartsWith(probe.content, MAGIC_GIF89)
    /\ probe.first = Some(Ok("Gif"))
    /\ probe.second = Some(Ok("Gif"))

(***************************************************************************)
(* Properties of the security analyzer (checked under SpecScan)            *)
(***************************************************************************)
\* the analyses the probe has obtained so far
ScanAnalyses ==
    (IF IsSome(probe.first) THEN {Unwrap(probe.first)} ELSE {})
    \cup (IF IsSome(probe.second) THEN {Unwrap(probe.second)} ELSE {})

\* C11: the security_score of every analysis lies in 0..100, and the
\* analysis of a content with one more threat occurrence inserted never has
\* a higher score than the analysis of the content without it.
C11_ScoreBoundedMonotone ==
    /\ \A a \in ScanAnalyses : a.security_score >= 0 /\ a.security_score <= 100
    /\ probe.stage = "reanalysed" =>
          Unwrap(probe.second).security_score <= Unwrap(probe.first).security_score

\* an inserted automatic action has taken a score of 10 down to the floor
C11_Witness ==
    /\ probe.stage = "reanalysed"
    /\ probe.inserted = Some(Bytes("/OpenAction"))
    /\ Unwrap(probe.first).security_score = 10
    /\ Unwrap(probe.second).security_score = 0

\* the reduction of the k first declared patterns, by their declared occurrences
RECURSIVE DeclaredReduction(_, _)
DeclaredReduction(content_str, k) ==
    IF k = 0 THEN 0
    ELSE DeclaredReduction(content_str, k - 1)
         + score_reduction(threat_patterns[k].severity) * Len(DeclaredMatches(content_str, k))

\* C12: the score is max(0, 100 - sum of weight * occurrences) over the four
\* declared patterns, and every declared pattern that occurs has its
\* DetectedThreat entry with its occurrence count.
C12_ScoreFormula ==
    probe.stage = "analysed" =>
        LET content_str == from_utf8_lossy(Flatten(probe.parts))
            a == Unwrap(probe.first)
        IN  /\ a.security_score
                  = Max(0, 100 - DeclaredReduction(content_str, Len(threat_patterns)))
            /\ \A k \in 1..Len(threat_patterns) :
                  DeclaredMatches(content_str, k) # <<>> =>
                      \E j \in 1..Len(a.threats_detected) :
                          /\ a.threats_detected[j].threat_type = threat_patterns[k].name
                          /\ a.threats_detected[j].occurrences
                                 = Len(DeclaredMatches(content_str, k))

\* the band the claim gives a score
ClaimedBand(score) ==
    IF score >= 80 THEN "Low"
    ELSE IF score >= 60 THEN "Medium"
    ELSE IF score >= 40 THEN "High"
    ELSE "Critical"

\* C13: the risk level is the band of the score: 80..100 Low, 60..79
\* Medium, 40..59 High, below 40 Critical, lower bounds included.
C13_RiskBands ==
    /\ \A score \in 0..100 : risk_level(score) = ClaimedBand(score)
    /\ \A a \in ScanAnalyses : a.risk_level = ClaimedBand(a.security_score)

\* two automatic actions give the score 40, which is High
C13_Witness ==
    /\ probe.stage = "analysed"
    /\ Unwrap(probe.first).security_score = 40
    /\ Unwrap(probe.first).risk_level = "High"

(***************************************************************************)
(* Properties of security_scan and validate_document (checked under        *)
(* SpecApi)                                                                *)
(***************************************************************************)
IsOp(r, op) == IsSome(call[r]) /\ Args(r).op = op

\* C14: security_scan never fails: whatever the content and whether or not
\* a format is given, the call returns a SecurityAnalysis.
C14_ScanNeverFails ==
    \A r \in Requests : (IsOp(r, "security_scan") /\ Done(r)) => Result(r).ok

\* C15: validate_document never fails: whatever the content and the rules,
\* the call returns a ValidationResult.
C15_ValidateNeverFails ==
    \A r \in Requests : (IsOp(r, "validate_document") /\ Done(r)) => Result(r).ok

(***************************************************************************)
(* Properties of the validation engine (checked under SpecValidate)        *)
(***************************************************************************)
Validated == probe.stage = "validated"
ValidationOf == Unwrap(probe.result).val

\* the names of the messages of a list, in order
RuleNames(messages) == [i \in 1..Len(messages) |-> messages[i].rule_name]

\* the names of the rules i..n whose own message has severity sev, in rule order
RECURSIVE NamesWithSeverity(_, _, _)
NamesWithSeverity(rules, i, sev) ==
    IF i > Len(rules) THEN <<>>
    ELSE LET alone == validate_document(probe.content, probe.format, <<rules[i]>>)
             list == CASE sev = "Error" -> alone.errors
                       [] sev = "Warning" -> alone.warnings
                       [] sev = "Info" -> alone.info
         IN  (IF list # <<>> THEN <<rules[i].name>> ELSE <<>>)
             \o NamesWithSeverity(rules, i + 1, sev)

\* C16: validation yields exactly one message per rule: the three lists
\* together have as many messages as there are rules, every message carries
\* the name of its rule, and each list names its rules in rule-list order.
C16_OneMessagePerRule ==
    Validated =>
        LET v == ValidationOf
        IN  /\ Len(v.errors) + Len(v.warnings) + Len(v.info) = Len(probe.rules)
            /\ RuleNames(v.errors) = NamesWithSeverity(probe.rules, 1, "Error")
            /\ RuleNames(v.warnings) = NamesWithSeverity(probe.rules, 1, "Warning")
            /\ RuleNames(v.info) = NamesWithSeverity(probe.rules, 1, "Info")
            /\ \A i \in 1..Len(v.errors) : v.errors[i].severity = "Error"
            /\ \A i \in 1..Len(v.warnings) : v.warnings[i].severity = "Warning"
            /\ \A i \in 1..Len(v.info) : v.info[i].severity = "Info"

\* a format rule and a size rule have both failed, in that order
C16_Witness ==
    /\ Validated
    /\ probe.rules = <<R_DOCX_ONLY, R_SIZE10>>
    /\ RuleNames(ValidationOf.errors) = <<"fmt", "size10">>
    /\ ValidationOf.info = <<>>

\* C17: is_valid is true exactly when the errors list is empty, however
\* many Info and Warning messages there are; no rules, no errors.
C17_ValidIffNoErrors ==
    Validated =>
        /\ ValidationOf.is_valid <=> ValidationOf.errors = <<>>
        /\ probe.rules = <<>> => ValidationOf.is_valid

\* a document with two Info messages and no Error is valid
C17_Witness ==
    /\ Validated
    /\ ValidationOf.is_valid
    /\ Len(ValidationOf.info) = 2
    /\ ValidationOf.errors = <<>>

\* the size limit of a MaxFileSize rule
ClaimedLimit(rule) == IF IsSome(rule.threshold) THEN Unwrap(rule.threshold) ELSE 10000000

C20_OverallStats ==
    \A r \in Requests : (IsProcess(r) /\ Done(r) /\ Result(r).ok) =>
        LET d == Result(r).val
            chosen == d.processing_result.stats
        IN  /\ d.processing_result.variant = DispatchFamily(Format(r))
            /\ d.validation_result = Unwrap(validation[r])
            /\ d.overall_stats.errors_encountered = Len(d.validation_result.errors)
            /\ d.overall_stats.warnings_generated = Len(d.validation_result.warnings)
            /\ d.overall_stats.pages_processed = chosen.pages_processed
            /\ d.overall_stats.text_extracted_chars = chosen.text_extracted_chars
            /\ d.overall_stats.images_extracted = chosen.images_extracted
            /\ d.overall_stats.annotations_found = chosen.annotations_found

\* a two-page PDF with one annotation that broke two rules: the processor
\* counted no error, the document reports two
C20_Witness ==
    \E r \in Requests :
        /\ IsProcess(r) /\ Done(r) /\ Result(r).ok
        /\ Result(r).val.processing_result.stats.errors_encountered = 0
        /\ Result(r).val.overall_stats.errors_encountered = 2
        /\ Result(r).val.overall_stats.pages_processed = 2
        /\ Result(r).val.overall_stats.text_extracted_chars = 2
        /\ Result(r).val.overall_stats.annotations_found = 1

(***************************************************************************)
(* Properties of the engine on further documents (checked under SpecLive)  *)
(***************************************************************************)
\* C21: when the processor left out a sub-structure it could not parse,
\* process_document returns a ProcessedDocument whose errors_encountered
\* is at least 1, whatever the rules.
C21_PartialSuccessVisible ==
    \A r \in Requests :
        (IsProcess(r) /\ Done(r) /\ Args(r).doc.container = "ok"
            /\ Args(r).doc.parsed.skipped >= 1) =>
                /\ Result(r).ok
                /\ Result(r).val.overall_stats.errors_encountered >= 1

(***************************************************************************)
(* Properties of the encoding detector (checked under SpecEncoding)        *)
(***************************************************************************)
Encoded == probe.stage = "encoded"
EncodingOf == Unwrap(probe.result).val

\* the priority order of the claim, on the probed content
EncodingPriority ==
    Encoded =>
        LET c == probe.content
            e == EncodingOf
        IN  /\ Unwrap(probe.result).ok
            /\ IF StartsWith(c, BOM_UTF8) THEN e = EncodingInfo("UTF-8", 100, TRUE)
               ELSE IF StartsWith(c, BOM_UTF16LE) THEN e = EncodingInfo("UTF-16LE", 100, TRUE)
               ELSE IF StartsWith(c, BOM_UTF16BE) THEN e = EncodingInfo("UTF-16BE", 100, TRUE)
               ELSE IF IsUtf8(c) THEN e = EncodingInfo("UTF-8", 90, FALSE)
               ELSE IF \A i \in 1..Len(c) : c[i] < 128 THEN e = EncodingInfo("ASCII", 95, FALSE)
               ELSE e = EncodingInfo("UTF-8", 50, FALSE)

\* the outcomes detection has on the contents of the model
EncodingOutcomes ==
    {detect_encoding(c).val : c \in EncodingInputs(MaxEncodingBytes)}

\* C22 as stated: the priority order holds, detection never fails, and every
\* listed outcome, ASCII included, is returned for some content.
C22_AllOutcomesReturned ==
    /\ EncodingPriority
    /\ { EncodingInfo("UTF-8", 100, TRUE), EncodingInfo("UTF-16LE", 100, TRUE),
         EncodingInfo("UTF-16BE", 100, TRUE), EncodingInfo("UTF-8", 90, FALSE),
         EncodingInfo("ASCII", 95, FALSE), EncodingInfo("UTF-8", 50, FALSE) }
           \subseteq EncodingOutcomes

\* C22 as amended: the priority order holds, detection never fails, every
\* listed outcome but ASCII is returned for some content, and ASCII is never
\* returned: content whose bytes are all below 128 is valid UTF-8.
C22_EncodingPriority ==
    /\ EncodingPriority
    /\ EncodingOutcomes
           = { EncodingInfo("UTF-8", 100, TRUE), EncodingInfo("UTF-16LE", 100, TRUE),
               EncodingInfo("UTF-16BE", 100, TRUE), EncodingInfo("UTF-8", 90, FALSE),
               EncodingInfo("UTF-8", 50, FALSE) }
    /\ Encoded => EncodingOf.encoding # "ASCII"

\* a content of letters only has been found to be UTF-8 without a mark
C22_Witness ==
    /\ Encoded
    /\ probe.content = <<65, 65>>
    /\ EncodingOf = EncodingInfo("UTF-8", 90, FALSE)

(***************************************************************************)
(* Properties of the detection of containers (checked under SpecLive)      *)
(***************************************************************************)
\* request r runs process_document on ZIP-signature content named as a
\* workbook or a presentation
ZipNotWord(r) ==
    /\ IsProcess(r)
    /\ StartsWith(Args(r).doc.bytes, MAGIC_ZIP)
    /\ IsSome(Args(r).filename)
    /\ Extension(Unwrap(Args(r).filename)) \in {Some(Bytes("xlsx")), Some(Bytes("pptx"))}

\* C23: ZIP-signature content with a filename ending in .xlsx or .pptx is
\* not detected as Docx and is not handed to the Office processor as a
\* Word document.
C23_ZipDisambiguated ==
    \A r \in Requests : ZipNotWord(r) =>
        /\ IsSome(detected[r]) => Unwrap(detected[r]) # Ok("Docx")
        /\ pc[r] = "processing" => Format(r) # "Docx"

\* C25: the analysis process_document keeps has is_encrypted set when the
\* content begins with the 8-byte compound-binary header, and for the PDF
\* family has it set exactly when the content contains /Encrypt.
C25_EncryptionFlag ==
    \A r \in Requests :
        (IsProcess(r) /\ IsSome(security[r])) =>
            /\ StartsWith(Args(r).doc.bytes, MAGIC_OLE) => Unwrap(security[r]).is_encrypted
            /\ Format(r) \in PdfFamily =>
                  (Unwrap(security[r]).is_encrypted <=> Contains(Args(r).doc.bytes, S_ENCRYPT))

\* the locks request r holds
HeldBy(r) == {f \in Families : lock[f] = r}

\* the steps a call runs before it asks for its processor's lock
StepsBeforeLock(c) ==
    IF c.op = "process_document"
    THEN <<"detect_format", "analyze_content", "validate_document">>
    ELSE IF IsSome(c.format) THEN <<>> ELSE <<"detect_format">>

\* a request holds at most one lock, only while its processor runs and only
\* after its lock-free steps; it holds none while it waits or once it has
\* returned, with a value or with an error
LockDiscipline ==
    \A r \in Requests :
        /\ Cardinality(HeldBy(r)) <= 1
        /\ HeldBy(r) # {} =>
              /\ pc[r] = "processing"
              /\ HeldBy(r) = {FamilyOf(r)}
              /\ IsPrefix(StepsBeforeLock(Args(r)) \o <<"write">>, steps[r])
        /\ pc[r] # "processing" => HeldBy(r) = {}

SniffTests(t) ==
    << <<"Html", StartsWith(t, T_DOCTYPE) \/ StartsWith(t, T_HTML)>>,
       <<"Json", StartsWith(t, CH_LBRACE) /\ EndsWith(t, CH_RBRACE)>>,
       <<"Xml", StartsWith(t, T_XMLDECL) \/ (StartsWith(t, CH_LT) /\ EndsWith(t, CH_GT))>>,
       <<"Yaml", Contains(t, T_YAML_LINE) \/ StartsWith(t, T_YAML)>>,
       <<"Csv", Contains(FirstLine(t), CH_COMMA)>>,
       <<"Markdown", Contains(t, CH_HASH) \/ Contains(t, T_STARS) \/ Contains(t, T_FENCE)>> >>

\* the probe reaches the sniffing arm with valid UTF-8 content
Sniffing ==
    /\ MagicMatches(probe.content) = {}
    /\ ~IsSome(ProbeFilenameExtension)
    /\ IsUtf8(probe.content)

\* C24: content sniffing returns the format of the earliest test that
\* matches, in the order HTML, JSON, XML, YAML, CSV, Markdown, and
\* PlainText when none does; so braces with commas give Json, a Markdown
\* marker with a comma in the first line gives Csv, and a Markdown marker
\* with a --- line gives Yaml.
C24_SniffPriority ==
    Sniffing =>
        LET tests == SniffTests(Trim(probe.content))
            hits == {k \in 1..Len(tests) : tests[k][2]}
        IN  \A res \in ProbeResults :
                /\ res.ok
                /\ hits = {} => res.val = "PlainText"
                /\ \A k \in hits : (\A j \in hits : k <= j) => res.val = tests[k][1]
                /\ (tests[2][2] /\ ~tests[1][2] /\ tests[5][2]) => res.val = "Json"
                /\ (tests[6][2] /\ tests[5][2] /\ hits \cap 1..4 = {}) => res.val = "Csv"
                /\ (tests[6][2] /\ tests[4][2] /\ hits \cap 1..3 = {}) => res.val = "Yaml"

\* a heading marker followed by a comma has been classified as Csv
C24_Witness ==
    /\ probe.stage = "detected"
    /\ probe.filename = None
    /\ probe.content = CH_HASH \o CH_COMMA
    /\ probe.first = Some(Ok("Csv"))

(***************************************************************************)
(* Properties of the foreign-function bridge (checked under SpecFfi)       *)
(***************************************************************************)
\* C27: a handle that filefire_get_metadata, filefire_annotate or
\* filefire_save accepts resolves to the document it was issued for, and a
\* handle issued before a cleanup or already closed is not accepted.
C27_HandlesNeverConfused ==
    \A t \in Threads :
        (probe.th[t].pc = "resolved" /\ probe.th[t].result # 0) =>
            /\ probe.th[t].result = probe.th[t].doc
            /\ probe.th[t].live

\* C28: when two filefire_open_file calls have both returned a handle, with
\* no cleanup since, the handles differ and each selects the document its
\* own call opened.
C28_ConcurrentOpens ==
    \A t1, t2 \in Threads :
        (/\ t1 # t2
         /\ probe.th[t1].pc = "opened" /\ probe.th[t1].handle # 0
         /\ probe.th[t2].pc = "opened" /\ probe.th[t2].handle # 0
         /\ \A t \in {t1, t2} :
               [handle |-> probe.th[t].handle, doc |-> probe.th[t].doc, live |-> TRUE]
                   \in probe.issued) =>
            /\ probe.th[t1].handle # probe.th[t2].handle
            /\ \A t \in {t1, t2} :
                  /\ probe.th[t].handle <= Len(probe.documents)
                  /\ probe.documents[probe.th[t].handle] = probe.th[t].doc

(***************************************************************************)
(* Properties of the engine's document operations (checked under           *)
(* SpecDocument)                                                           *)
(***************************************************************************)
\* the ids of a sequence of annotations
AnnotationIds(annotations) == {annotations[k].id : k \in 1..Len(annotations)}

\* C29: the annotations of a document have pairwise distinct ids;
\* remove_annotation with an id that is present takes out exactly one
\* annotation, returns true and sets is_modified, and with an id that is
\* not present returns false and changes nothing.
C29_AnnotationIdsUnique ==
    LET annotations == probe.document.annotations
        before == probe.last.before
    IN  /\ \A j, k \in 1..Len(annotations) :
              j # k => annotations[j].id # annotations[k].id
        /\ probe.last.op = "remove_annotation" =>
              IF probe.last.ret.val # <<>>
              THEN /\ probe.last.ret.val \in AnnotationIds(before.annotations)
                   /\ Len(annotations) = Len(before.annotations) - 1
                   /\ probe.document.is_modified
              ELSE probe.document = before

\* the operations that go through a plugin, with the capability each asks for
PluginOps == [convert |-> "FileConversion", ocr |-> "Ocr", watermark |-> "Watermark"]

\* C30: convert, ocr and watermark return a Plugin error when no registered
\* plugin declares the capability; convert, ocr and a failed watermark leave
\* the document as it was; a successful watermark replaces the content,
\* sets is_modified and keeps the annotations.
C30_PluginFailsCleanly ==
    probe.last.op \in DOMAIN PluginOps =>
        LET before == probe.last.before
            ret == probe.last.ret
        IN  /\ (\A p \in probe.plugins : PluginOps[probe.last.op] \notin p.capabilities) =>
                  ~ret.ok /\ ret.err = "Plugin"
            /\ (probe.last.op # "watermark" \/ ~ret.ok) => probe.document = before
            /\ (probe.last.op = "watermark" /\ ret.ok) =>
                  /\ probe.document.content = PLUGIN_DATA
                  /\ probe.document.is_modified
                  /\ probe.document.annotations = before.annotations
                  /\ \E p \in probe.plugins :
                        "Watermark" \in p.capabilities /\ p.behaviour = "success"

\* a watermark has failed on an annotated document because the plugin's
\* output had no success, with plugins registered
C30_Witness ==
    /\ probe.last.op = "watermark"
    /\ ~probe.last.ret.ok
    /\ probe.last.ret.msg = "Watermarking failed"
    /\ probe.document.annotations # <<>>
    /\ probe.document.content = Bytes("d")

====
